---------------------------- MODULE Spec2Model ----------------------------
(***************************************************************************)
(* kanon: mixed-radix numbers (kanon/units/radices.py) and the precision   *)
(* context that governs their arithmetic (kanon/units/precision.py).       *)
(*                                                                         *)
(* A number is a record [err, base, left, right, sign, rem]; err = "ok"    *)
(* for a number and the name of the raised exception otherwise.  A Decimal *)
(* (and a float) is carried as an exact fraction <<n, d>> with d > 0 in    *)
(* lowest terms: the 28-digit rounding of decimal.Decimal and the 53-bit   *)
(* rounding of float lie outside the integer range of the model checker    *)
(* and are not modelled.                                                   *)
(***************************************************************************)
EXTENDS Integers, Sequences, FiniteSets, TLC

VARIABLES
    ctx,        \* the live PrecisionContext: pmode, pf, tmode, add, sub, mul, div, recording, stack
    registry,   \* _AI_REGISTRY: the registered algorithm ids ("None" stands for None)
    frames,     \* the active set_precision generator frames, innermost last
    records,    \* ctx._records
    lastExit,   \* observation of the last scope exit: how it exited, and whether the
                \* configuration saved at entry is the configuration after the exit
    pc,         \* position of the arithmetic driver
    x, y,       \* operands of the arithmetic driver
    cx,         \* context the arithmetic driver runs under
    out,        \* result of the last driver operation
    radix_registry,  \* radix_registry: type name -> the base of the registered type
    cache       \* the lru_cache of BasedReal.subunit_quantity

vars == <<ctx, registry, frames, records, lastExit, pc, x, y, cx, out, radix_registry, cache>>

-----------------------------------------------------------------------------
(* Exact fractions: the values of decimal.Decimal and float.               *)

Abs(n) == IF n < 0 THEN -n ELSE n

Max(a, b) == IF a >= b THEN a ELSE b

Min(a, b) == IF a <= b THEN a ELSE b

RECURSIVE GCD(_, _)
GCD(a, b) == IF b = 0 THEN a ELSE GCD(b, a % b)

Q(n, d) == LET g == GCD(Abs(n), d) IN <<n \div g, d \div g>>

QInt(n) == <<n, 1>>

QNeg(p) == <<-p[1], p[2]>>

QAbs(p) == <<Abs(p[1]), p[2]>>

QAdd(p, q) ==
    LET g == GCD(p[2], q[2])
    IN  Q(p[1] * (q[2] \div g) + q[1] * (p[2] \div g), (p[2] \div g) * q[2])

QSub(p, q) == QAdd(p, QNeg(q))

QMul(p, q) ==
    LET g1 == GCD(Abs(p[1]), q[2])
        g2 == GCD(Abs(q[1]), p[2])
    IN  <<(p[1] \div g1) * (q[1] \div g2), (p[2] \div g2) * (q[2] \div g1)>>

QInv(p) == IF p[1] > 0 THEN <<p[2], p[1]>> ELSE <<-p[2], -p[1]>>

QDiv(p, q) == QMul(p, QInv(q))

QLt(p, q) ==
    LET g == GCD(p[2], q[2])
    IN  p[1] * (q[2] \div g) < q[1] * (p[2] \div g)

QLe(p, q) == p = q \/ QLt(p, q)

QFloor(p) == p[1] \div p[2]

\* int(): towards zero
QTrunc(p) == IF p[1] >= 0 THEN p[1] \div p[2] ELSE -((-p[1]) \div p[2])

\* Decimal %: the result has the sign of the dividend
QRem(p, q) == QSub(p, QMul(q, QInt(QTrunc(QDiv(p, q)))))

QMulInt(p, k) == QMul(p, QInt(k))

-----------------------------------------------------------------------------
(* Python sequences                                                        *)

Take(s, n) == SubSeq(s, 1, Min(Max(n, 0), Len(s)))

Drop(s, n) == SubSeq(s, Min(Max(n, 0), Len(s)) + 1, Len(s))

RECURSIVE Reverse(_)
Reverse(s) == IF s = <<>> THEN <<>> ELSE Append(Reverse(Tail(s)), Head(s))

\* (0,) * n
RECURSIVE Zeros(_)
Zeros(n) == IF n <= 0 THEN <<>> ELSE Append(Zeros(n - 1), 0)

\* [k * x for x in s]
RECURSIVE Scaled(_, _)
Scaled(s, k) == IF s = <<>> THEN <<>> ELSE <<k * Head(s)>> \o Scaled(Tail(s), k)

\* [a + b for a, b in zip(s, t)]
RECURSIVE ZipAdd(_, _)
ZipAdd(s, t) ==
    IF s = <<>> \/ t = <<>> THEN <<>>
    ELSE <<Head(s) + Head(t)>> \o ZipAdd(Tail(s), Tail(t))

\* [abs(x) for x in s]
RECURSIVE AbsAll(_)
AbsAll(s) == IF s = <<>> THEN <<>> ELSE <<Abs(Head(s))>> \o AbsAll(Tail(s))

-----------------------------------------------------------------------------
(* RadixBase                                                               *)

BaseNames == {"Sexagesimal", "Historical", "HistoricalDecimal",
              "IntegerAndSexagesimal", "Temporal"}

BaseLeft(b) ==
    CASE b = "Sexagesimal" -> <<60>>
      [] b = "Historical" -> <<10, 12, 30>>
      [] b = "HistoricalDecimal" -> <<10>>
      [] b = "IntegerAndSexagesimal" -> <<10>>
      [] b = "Temporal" -> <<10>>

BaseRight(b) ==
    CASE b = "Sexagesimal" -> <<60>>
      [] b = "Historical" -> <<60>>
      [] b = "HistoricalDecimal" -> <<100>>
      [] b = "IntegerAndSexagesimal" -> <<60>>
      [] b = "Temporal" -> <<24, 60>>

Mixed(b) ==
    LET all == BaseLeft(b) \o BaseRight(b)
    IN  \E i \in 1..Len(all) : all[i] # BaseLeft(b)[1]

\* LoopingList.__getitem__ with a Python index
LL(s, key) ==
    IF key >= Len(s) THEN s[Len(s)]
    ELSE IF key < 1 - Len(s) THEN s[1]
    ELSE IF key >= 0 THEN s[key + 1]
    ELSE s[Len(s) + key + 1]

\* RadixBase.__getitem__: the radix at a position
RadixAt(b, key) ==
    IF key <= 0 THEN LL(BaseLeft(b), key - 1) ELSE LL(BaseRight(b), key - 1)

RECURSIVE FactorLoop(_, _, _)
FactorLoop(b, pos, i) ==
    IF i >= Abs(pos) THEN 1
    ELSE RadixAt(b, IF pos > 0 THEN i ELSE -i) * FactorLoop(b, pos, i + 1)

FactorAtPos(b, pos) == FactorLoop(b, pos, 0)

\* product of base.right[0 .. n-1], the running factor of the decimal property
RECURSIVE RightFactor(_, _)
RightFactor(b, n) ==
    IF n <= 0 THEN 1 ELSE RightFactor(b, n - 1) * LL(BaseRight(b), n - 1)

-----------------------------------------------------------------------------
(* BasedReal: representation and conversions                               *)

Num(b, l, r, rem, s) ==
    [err |-> "ok", base |-> b, left |-> l, right |-> r, sign |-> s, rem |-> rem]

Err(e) ==
    [err |-> e, base |-> "", left |-> <<>>, right |-> <<>>, sign |-> 1, rem |-> <<0, 1>>]

IsErr(v) == v.err # "ok"

\* a plain int or float operand: not a BasedReal, its value kept as the rational f
Plain(f) ==
    [err |-> "ok", base |-> "float", left |-> <<>>, right |-> <<>>, sign |-> 1, rem |-> f]

IsPlain(v) == v.base = "float"

Significant(v) == Len(v.right)

Digits(v) == v.left \o v.right

\* the loop of __int__ weights digit i (from the right) by the product of the
\* radices of the positions to its right
RECURSIVE IntWeights(_, _, _, _)
IntWeights(b, l, i, factor) ==
    IF i >= Len(l) THEN 0
    ELSE factor * l[Len(l) - i]
         + IntWeights(b, l, i + 1, factor * LL(BaseLeft(b), -i - 1))

ToInt(v) == v.sign * IntWeights(v.base, v.left, 0, 1)

RECURSIVE FracSum(_, _, _)
FracSum(b, r, i) ==
    IF i > Len(r) THEN <<0, 1>>
    ELSE QAdd(Q(r[i], RightFactor(b, i)), FracSum(b, r, i + 1))

\* the decimal property
DecimalOf(v) ==
    LET value == QAdd(QInt(Abs(ToInt(v))),
                      QAdd(FracSum(v.base, v.right, 1),
                           QDiv(v.rem, QInt(RightFactor(v.base, Significant(v))))))
    IN  QMulInt(value, v.sign)

\* float(self)
FloatOf(v) == DecimalOf(v)

\* an Optional[int] argument: <<>> is None, <<n>> is n
None == <<>>

Some(n) == <<n>>

QZero == <<0, 1>>

QOne == <<1, 1>>

QHalf == <<1, 2>>

\* Python's floor division and modulo of int
PyFloorDiv(a, b) == IF b > 0 THEN a \div b ELSE (-a) \div (-b)

PyMod(a, b) == a - b * PyFloorDiv(a, b)

\* the precision context of the enumeration defaults
MAXMode == [k |-> "MAX", n |-> 0]

SCIMode == [k |-> "SCI", n |-> 0]

FULLMode == [k |-> "FULL", n |-> 0]

Fix(n) == [k |-> "FIX", n |-> n]

\* PrecisionContext.__post_init__: "ok" or the exception it raises
PostInit(pmode, tmode) ==
    IF tmode \notin {"NONE", "ROUND", "TRUNC", "CEIL", "FLOOR"} THEN "TypeError"
    ELSE IF pmode.k = "FIX" THEN (IF pmode.n < 0 THEN "ValueError" ELSE "ok")
    ELSE IF pmode.k \in {"MAX", "SCI", "FULL"} THEN "ok"
    ELSE "TypeError"

\* the _precisionfunc that __post_init__ installs; "SELF" reads self.pmode when called
PrecisionFuncOf(pmode) == IF pmode.k = "FIX" THEN "SELF" ELSE pmode.k

\* the registry check at the head of PrecisionContext.mutate, for the restoring call
\* mutate(**current) of set_precision, followed by its __post_init__
RegisteredAll(c) == {c.add, c.sub, c.mul, c.div} \subseteq c.reg

RestoreOK(c) == RegisteredAll(c) /\ PostInit(c.pmode, c.tmode) = "ok"


\* a call of a method of BasedReal, resolved by name when it is made
RECURSIVE Call(_, _, _)

\* the constructor with a Decimal remainder
New(c, b, l, r, rem, s) == Call(c, "__new__", <<b, l, r, <<"Decimal", "int">>, rem, s>>)

zero(c, b, significant) == New(c, b, <<0>>, Zeros(significant), QZero, 1)

one(c, b, significant) == New(c, b, <<1>>, Zeros(significant), QZero, 1)

\* PreciseNumber.__add__ and __mul__ behind _with_context_precision
OpAdd(c, a, b) == Call(c, "Wrapper", <<"add", a, b>>).res

OpMul(c, a, b) == Call(c, "Wrapper", <<"mul", a, b>>).res

\* BasedReal.__add__ / __mul__ with an int or float operand
AddFloat(c, a, f) ==
    LET Added(o) == IF IsErr(o) THEN o ELSE OpAdd(c, a, o)
    IN  Added(Call(c, "from_float", <<a.base, f, Significant(a)>>))

MulFloat(c, a, f) ==
    LET Multiplied(o) == IF IsErr(o) THEN o ELSE OpMul(c, a, o)
    IN  Multiplied(Call(c, "from_float", <<a.base, f, Significant(a)>>))

\* the digit loop of __check_range
DigitsInRange(b, l, r) ==
    LET all == l \o r
    IN  \A i \in 1..Len(all) :
            all[i] >= 0 /\ all[i] < RadixAt(b, (i - 1) - Len(l) + 1)

\* __check_range: the object under construction, or the exception raised; kind is
\* <<type of the remainder, type of the digits>>, "float" when one is a float.  In the
\* remainder == 1 branch `self += ...` rebinds the local name only: the digit loop
\* then runs over the sum, and the object under construction keeps its digits and
\* its remainder.
__check_range(c, b, l, r, kind, rem, s) ==
    LET self == Num(b, l, r, rem, s)
        Checked(v) ==
            IF IsErr(v) THEN v
            ELSE IF v = self /\ kind[2] = "float" THEN Err("IllegalFloatError")
            ELSE IF DigitsInRange(b, v.left, v.right) THEN self
            ELSE Err("IllegalBaseValueError")
        Carried(unit) ==
            IF IsErr(unit) THEN unit
            ELSE IF "float" \in {kind[1], kind[2]} THEN Err("TypeError")
            ELSE Checked(OpAdd(c, self, unit))
        Shifted(signed) ==
            IF IsErr(signed) THEN signed ELSE Carried(Call(c, "shift", <<signed, Len(r)>>))
        Signed(o) ==
            IF IsErr(o) THEN o ELSE Shifted(MulFloat(c, o, QInt(s)))
    IN  IF s \notin {-1, 1} THEN Err("ValueError")
        ELSE IF kind[1] = "Decimal" /\ QLe(QZero, rem) /\ QLt(rem, QOne) THEN Checked(self)
        ELSE IF rem = QOne THEN Signed(one(c, b, 0))
        ELSE Err("ValueError")

\* __simplify_integer_part without its loop: the integer digits as given
KeepLeft(l) == l

\* __simplify_integer_part
RECURSIVE StripLeft(_)
StripLeft(l) ==
    IF Len(l) > 1 /\ l[1] = 0 THEN StripLeft(Tail(l)) ELSE l

__new__(c, b, l, r, kind, rem, s) ==
    LET Simplified(self) ==
            IF IsErr(self) THEN self
            ELSE IF StripLeft(l) # l \/ l = <<>>
            THEN Call(c, "__new__", <<b, IF l = <<>> THEN <<0>> ELSE StripLeft(l), r, kind, rem, s>>)
            ELSE self
    IN  Simplified(__check_range(c, b, l, r, kind, rem, s))

\* from_int with the sign left out: the digits of the absolute value
FromIntUnsigned(c, b, value, significant) ==
    New(c, b, <<Abs(value)>>, Zeros(significant), QZero, 1)

\* from_int: the while loop, <<pos, int_factor>>
RECURSIVE FromIntPos(_, _, _, _)
FromIntPos(b, value, pos, f) ==
    IF value >= f THEN FromIntPos(b, value, pos + 1, f * LL(BaseLeft(b), -1 - pos))
    ELSE <<pos, f>>

\* from_int: the for loop
RECURSIVE FromIntDigits(_, _, _, _, _)
FromIntDigits(b, value, i, pos, f) ==
    IF i >= pos THEN <<>>
    ELSE LET f2 == f \div LL(BaseLeft(b), -pos + i)
             pv == value \div f2
         IN  <<pv>> \o FromIntDigits(b, value - pv * f2, i + 1, pos, f2)

from_int(c, b, value, significant) ==
    LET sign == IF value < 0 THEN -1 ELSE 1
        v == value * sign
        pf == FromIntPos(b, v, 0, 1)
    IN  New(c, b, FromIntDigits(b, v, 0, pf[1], pf[2]), Zeros(significant), QZero, sign)

\* from_decimal: the digit loop, <<right, value>>
RECURSIVE DecimalDigits(_, _, _, _)
DecimalDigits(b, value, i, significant) ==
    IF i >= significant THEN <<<<>>, value>>
    ELSE LET v2 == QMulInt(value, LL(BaseRight(b), i))
             pv == QTrunc(v2)
             rest == DecimalDigits(b, QSub(v2, QInt(pv)), i + 1, significant)
         IN  <<<<pv>> \o rest[1], rest[2]>>

from_decimal(c, b, dec, significant) ==
    LET Fraction(integer_part) ==
            IF IsErr(integer_part) THEN integer_part
            ELSE LET value == QAbs(QSub(dec, QInt(ToInt(integer_part))))
                     d == DecimalDigits(b, value, 0, significant)
                 IN  New(c, b, integer_part.left, d[1], d[2],
                         IF QLt(dec, QZero) THEN -1 ELSE 1)
    IN  Fraction(Call(c, "from_int", <<b, QTrunc(dec), significant>>))

\* value - int(value) > 0.999999 and value - int(value) < 1 - 0.999999
AboveThreshold(fr) == fr[2] - fr[1] <= (fr[2] - 1) \div 1000000

BelowThreshold(fr) == fr[1] <= (fr[2] - 1) \div 1000000

\* from_float: the digit loop, <<right, value>>; nz is any(x != 0 for x in right)
RECURSIVE FloatDigits(_, _, _, _, _)
FloatDigits(b, value, i, significant, nz) ==
    IF i >= significant THEN <<<<>>, value>>
    ELSE LET factor == LL(BaseRight(b), i)
             v1 == QMulInt(value, factor)
             fr == QSub(v1, QInt(QTrunc(v1)))
             v2 == IF AboveThreshold(fr) /\ QLt(QAdd(v1, QOne), QInt(factor))
                   THEN QInt(QTrunc(v1) + 1)
                   ELSE IF BelowThreshold(fr) /\ nz THEN QInt(QTrunc(v1))
                   ELSE v1
             pv == QTrunc(v2)
             rest == FloatDigits(b, QSub(v2, QInt(pv)), i + 1, significant, nz \/ pv # 0)
         IN  <<<<pv>> \o rest[1], rest[2]>>

from_float(c, b, floa, significant) ==
    LET Fraction(integer_part) ==
            IF IsErr(integer_part) THEN integer_part
            ELSE LET value == QAbs(QSub(floa, QInt(ToInt(integer_part))))
                     d == IF value # QZero
                          THEN FloatDigits(b, value, 0, significant, FALSE)
                          ELSE <<Zeros(significant), value>>
                 IN  New(c, b, integer_part.left, d[1], d[2],
                         IF QLt(floa, QZero) THEN -1 ELSE 1)
    IN  Fraction(Call(c, "from_int", <<b, QTrunc(floa), significant>>))

resize(c, v, significant) ==
    LET Grown(rem) ==
            IF IsErr(rem) THEN rem
            ELSE New(c, v.base, v.left, v.right \o rem.right, rem.rem, v.sign)
        Shrunk(remainder) ==
            IF IsErr(remainder) THEN remainder
            ELSE New(c, v.base, v.left, Take(v.right, significant),
                     DecimalOf(remainder), v.sign)
    IN  IF significant = Significant(v) THEN v
        ELSE IF significant > Significant(v)
        THEN Grown(Call(c, "from_decimal", <<v.base, QMulInt(v.rem, v.sign), significant - Significant(v)>>))
        ELSE IF significant >= 0
        THEN Shrunk(New(c, v.base, <<>>, Drop(v.right, significant), v.rem, 1))
        ELSE Err("NotImplementedError")

truncate(c, v, significant) ==
    LET n == IF significant = None THEN Significant(v) ELSE significant[1]
    IN  IF n > Significant(v) THEN v
        ELSE New(c, v.base,
                 IF n >= 0 THEN v.left ELSE Take(v.left, -n),
                 IF n >= 0 THEN Take(v.right, n) ELSE <<>>,
                 QZero, v.sign)

_set_remainder(c, v, remainder) == New(c, v.base, v.left, v.right, remainder, v.sign)

\* the context inside `with set_precision(pmode=MAX, tmode=NONE, recording=False)`
RoundScope(c) ==
    [c EXCEPT !.pmode = MAXMode, !.pf = "MAX", !.tmode = "NONE", !.recording = FALSE]

__round__(c, v, significant) ==
    LET s == IF significant = None THEN Significant(v) ELSE significant[1]
        values == Zeros(s) \o <<1>>
        Truncated(n) == IF IsErr(n) THEN n ELSE Call(c, "truncate", <<n, Some(s)>>)
        Added(n, unit) ==
            IF IsErr(unit) THEN unit ELSE Truncated(OpAdd(RoundScope(c), n, unit))
        Rounded(n) ==
            IF IsErr(n) THEN n
            ELSE IF QLe(QHalf, n.rem)
            THEN IF ~RestoreOK(c) THEN Err("ValueError")
                 ELSE Added(n, New(RoundScope(c), v.base, Take(values, 1),
                                   Drop(values, 1), QZero, v.sign))
            ELSE Call(c, "truncate", <<n, Some(s)>>)
    IN  Rounded(Call(c, "resize", <<v, s>>))

floor(c, v, significant) ==
    LET Halved(h) == IF IsErr(h) THEN h ELSE Call(c, "__round__", <<h, None>>)
        Floored(resized) ==
            IF IsErr(resized) THEN resized
            ELSE IF resized.rem = QZero \/ v.sign = 1 THEN Call(c, "truncate", <<resized, None>>)
            ELSE Halved(_set_remainder(c, resized, QHalf))
    IN  Floored(IF significant # None /\ significant # Some(0)
                THEN Call(c, "resize", <<v, significant[1]>>) ELSE v)

\* ceil without the step up: the number cut at its last position
CeilTowardsZero(c, v, significant) == truncate(c, v, significant)

ceil(c, v, significant) ==
    LET Halved(h) == IF IsErr(h) THEN h ELSE Call(c, "__round__", <<h, None>>)
        Ceiled(resized) ==
            IF IsErr(resized) THEN resized
            ELSE IF resized.rem = QZero \/ v.sign = -1 THEN Call(c, "truncate", <<resized, None>>)
            ELSE Halved(_set_remainder(c, resized, QHalf))
    IN  Ceiled(IF significant # None /\ significant # Some(0)
               THEN Call(c, "resize", <<v, significant[1]>>) ELSE v)

shift(c, v, i) ==
    LET offset == IF i > 0 THEN Len(v.left) ELSE Len(v.left) - i
        Shifted(br_rem) ==
            IF IsErr(br_rem) THEN br_rem
            ELSE LET left_right == Zeros(i) \o Digits(v) \o br_rem.right
                     left == Take(left_right, offset)
                     right == IF -i > offset THEN SubSeq(left_right, offset + 1, -i)
                              ELSE Drop(left_right, offset)
                 IN  New(c, v.base, left, right, br_rem.rem, v.sign)
    IN  IF i = 0 THEN v
        ELSE IF Mixed(v.base) THEN Err("NotImplementedError")
        ELSE Shifted(Call(c, "from_decimal", <<v.base, v.rem, Max(0, offset - Len(Digits(v)))>>))

\* self << other with the direction of the shift lost
LshiftAsRshift(c, v, other) == shift(c, v, other)

__lshift__(c, v, other) == Call(c, "shift", <<v, -other>>)

__rshift__(c, v, other) == Call(c, "shift", <<v, other>>)

\* array[start::-1]
SliceDown(array, start) ==
    LET st == IF start < 0 THEN start + Len(array) ELSE Min(start, Len(array) - 1)
    IN  IF st < 0 THEN <<>> ELSE Reverse(Take(array, st + 1))

\* the loop of subunit_quantity over the digits d, from index idx on
RECURSIVE SubunitLoop(_, _, _, _, _)
SubunitLoop(b, d, i, idx, factor) ==
    IF idx >= Len(d) THEN 0
    ELSE d[idx + 1] * factor + SubunitLoop(b, d, i, idx + 1, factor * RadixAt(b, i - idx))

\* subunit_quantity on a fresh cache: [err, val]
subunit_quantity(c, v, i) ==
    LET Quantity(rs) ==
            IF IsErr(rs) THEN rs
            ELSE [err |-> "ok",
                  val |-> v.sign * SubunitLoop(v.base,
                                               SliceDown(Digits(rs), i + Len(rs.left) - 1),
                                               i, 0, 1)]
    IN  Quantity(Call(c, "resize", <<v, Max(0, i + 1)>>))

\* an int returned to the caller: [err, val]
IntVal(n) == [err |-> "ok", val |-> n]

\* hash(self): the int of a number without fractional part, otherwise the hash
\* of the tuple of its fields; hash values are told apart by what was hashed
__hash__(v) ==
    IF v.rem = QZero /\ \A k \in 1..Len(v.right) : v.right[k] = 0
    THEN <<"int", ToInt(v)>>
    ELSE <<"tuple", v.left, v.right, v.sign, v.rem>>

\* self == other for two numbers
__eq__(v, other) == DecimalOf(v) = DecimalOf(other)

\* equals
equals(v, other) ==
    IF v.base # other.base THEN FALSE
    ELSE v.left = other.left /\ v.right = other.right /\ v.sign = other.sign
         /\ v.rem = other.rem

\* the entries of the lru_cache that the key (v, i) finds
CacheHits(entries, v, i) ==
    {e \in entries : e.i = i /\ __hash__(e.self) = __hash__(v) /\ __eq__(e.self, v)}

\* int(float(self.truncate(0)))
__trunc__(c, v) ==
    LET Cut(t) == IF IsErr(t) THEN t ELSE IntVal(QTrunc(FloatOf(t)))
    IN  Cut(Call(c, "truncate", <<v, Some(0)>>))

__floor__(c, v) ==
    LET Stepped(t) ==
            IF IsErr(t) THEN t ELSE IntVal(t.val + (IF v.sign < 0 THEN 1 ELSE 0))
    IN  Stepped(Call(c, "__trunc__", <<v>>))

__ceil__(c, v) ==
    LET Stepped(t) ==
            IF IsErr(t) THEN t ELSE IntVal(t.val + (IF v.sign > 0 THEN 1 ELSE 0))
    IN  Stepped(Call(c, "__trunc__", <<v>>))

__neg__(c, v) == New(c, v.base, v.left, v.right, v.rem, -v.sign)

__abs__(c, v) == IF v.sign >= 0 THEN v ELSE Call(c, "__neg__", <<v>>)

-----------------------------------------------------------------------------
(* BasedReal: arithmetic                                                   *)

\* the carry loop of _add over numbers (least significant first): [err, nums]
RECURSIVE CarryLoop(_, _, _, _)
CarryLoop(b, numbers, i, maxright) ==
    IF i >= Len(numbers) THEN [err |-> "ok", nums |-> numbers]
    ELSE LET r == numbers[i + 1]
             factor == RadixAt(b, maxright - i)
         IN  IF r < 0 \/ r >= factor
             THEN IF i + 2 > Len(numbers) THEN [err |-> "IndexError", nums |-> numbers]
                  ELSE CarryLoop(b,
                                 [numbers EXCEPT ![i + 1] = r % factor,
                                                 ![i + 2] = @ + (IF r > 0 THEN 1 ELSE -1)],
                                 i + 1, maxright)
             ELSE CarryLoop(b, numbers, i + 1, maxright)

\* the digits reversed and padded, their sign left out
UnsignedDigits(v, maxlen) ==
    Reverse(Digits(v)) \o Zeros(maxlen - Len(Digits(v)))

\* [v.sign * x for x in v[::-1]] + [0] * (maxlen - len(v[:]))
SignedDigits(v, maxlen) ==
    Scaled(Reverse(Digits(v)), v.sign) \o Zeros(maxlen - Len(Digits(v)))

_add(c, self, other) ==
    LET maxright == Max(Significant(self), Significant(other))
        maxleft == Max(Len(self.left), Len(other.left))
        Summed(carried, remainder, sign) ==
            IF IsErr(carried) THEN Err(carried.err)
            ELSE LET final == Reverse(AbsAll(carried.nums))
                 IN  New(c, self.base, Take(final, maxleft + 1),
                         Drop(final, maxleft + 1), QAbs(remainder), sign)
        Digitwise(va, vb, sign) ==
            IF IsErr(va) THEN va ELSE IF IsErr(vb) THEN vb ELSE
            LET maxlen == Max(Len(Digits(va)), Len(Digits(vb)))
                remainder0 == QAdd(QMulInt(va.rem, va.sign), QMulInt(vb.rem, vb.sign))
                fn == IF QLe(QZero, remainder0) THEN remainder0
                      ELSE QSub(remainder0, QOne)
                numbers0 == Append(ZipAdd(SignedDigits(va, maxlen),
                                          SignedDigits(vb, maxlen)), 0)
                numbers == [numbers0 EXCEPT ![1] = @ + QTrunc(fn)]
            IN  Summed(CarryLoop(self.base, numbers, 0, maxright),
                       QSub(remainder0, QInt(QTrunc(fn))), sign)
        Signed(va, vb, sign) ==
            Digitwise(IF sign < 0 THEN Call(c, "__neg__", <<va>>) ELSE va,
                      IF sign < 0 THEN Call(c, "__neg__", <<vb>>) ELSE vb, sign)
        Resized(va, vb) ==
            IF IsErr(va) THEN va ELSE IF IsErr(vb) THEN vb
            ELSE Signed(va, vb, IF QLt(QAbs(DecimalOf(vb)), QAbs(DecimalOf(va)))
                                THEN va.sign ELSE vb.sign)
    IN  IF DecimalOf(self) = QNeg(DecimalOf(other)) THEN zero(c, self.base, 0)
        ELSE Resized(Call(c, "resize", <<self, maxright>>), Call(c, "resize", <<other, maxright>>))

\* self + -other, the sum going through BasedReal.__add__
_sub(c, self, other) ==
    LET Negated(o) == IF IsErr(o) THEN o ELSE Call(c, "Operate", <<"add", self, o>>).res
    IN  Negated(IF IsPlain(other) THEN Plain(QNeg(other.rem))
                ELSE Call(c, "__neg__", <<other>>))

\* the product of the integer parts alone, the fractional digits left out
MulIntegerParts(c, self, other) ==
    from_int(c, self.base, ToInt(self) * ToInt(other),
             Max(Significant(self), Significant(other)))

_mul(c, self, other) ==
    LET fs == FloatOf(self)
        fo == FloatOf(other)
        max_right == Max(Significant(self), Significant(other))
        factor == QInt(FactorAtPos(self.base, max_right))
        Product(va, vb, res, ta, tb) ==
            IF IsErr(res) THEN res ELSE IF IsErr(ta) THEN ta ELSE IF IsErr(tb) THEN tb
            ELSE
            LET vb_rem == QDiv(QMulInt(vb.rem, vb.sign), factor)
                va_rem == QDiv(QMulInt(va.rem, va.sign), factor)
                rem == QAdd(QAdd(QMul(DecimalOf(ta), vb_rem),
                                 QMul(DecimalOf(tb), va_rem)),
                            QMul(va_rem, vb_rem))
            IN  IF rem # QZero THEN AddFloat(c, res, rem) ELSE res
        Integer(res0) == IF IsErr(res0) THEN res0 ELSE Call(c, "shift", <<res0, 2 * max_right>>)
        Shifted(va, vb, la, lb) ==
            IF IsErr(la) THEN la ELSE IF IsErr(lb) THEN lb
            ELSE Product(va, vb,
                         Integer(Call(c, "from_int", <<self.base, ToInt(la) * ToInt(lb), 0>>)),
                         Call(c, "truncate", <<va, None>>), Call(c, "truncate", <<vb, None>>))
        Resized(va, vb) ==
            IF IsErr(va) THEN va ELSE IF IsErr(vb) THEN vb
            ELSE Shifted(va, vb, Call(c, "shift", <<va, -max_right>>), Call(c, "shift", <<vb, -max_right>>))
    IN
    IF fs \in {QOne, QNeg(QOne)} THEN (IF fs = QOne THEN other ELSE Call(c, "__neg__", <<other>>))
    ELSE IF fo \in {QOne, QNeg(QOne)} THEN (IF fo = QOne THEN self ELSE Call(c, "__neg__", <<self>>))
    ELSE IF fs = QZero \/ fo = QZero THEN zero(c, self.base, 0)
    ELSE IF Mixed(self.base)
    THEN Call(c, "from_float", <<self.base, QMul(fs, fo), Significant(self)>>)
    ELSE Resized(Call(c, "resize", <<self, max_right>>), Call(c, "resize", <<other, max_right>>))

\* the pair (q, m) that __divmod__ returns: [err, q, m]
DivPair(q, m) ==
    IF IsErr(q) THEN q ELSE IF IsErr(m) THEN m ELSE [err |-> "ok", q |-> q, m |-> m]

\* __divmod__ of two numbers of one base: [err, q, m]
__divmod__(c, self, other) ==
    LET fs == FloatOf(self)
        fo == FloatOf(other)
        max_sig == Max(Significant(self), Significant(other))
        Shifted(m0) == IF IsErr(m0) THEN m0 ELSE Call(c, "shift", <<m0, max_sig>>)
        Quantities(qself, qother) ==
            IF IsErr(qself) THEN qself ELSE IF IsErr(qother) THEN qother
            ELSE IF qother.val = 0 THEN Err("ZeroDivisionError")
            ELSE DivPair(Call(c, "from_int", <<self.base, PyFloorDiv(qself.val, qother.val), max_sig>>),
                         Shifted(Call(c, "from_int", <<self.base, PyMod(qself.val, qother.val), 0>>)))
        Resized(s_self, s_other) ==
            IF IsErr(s_self) THEN s_self ELSE IF IsErr(s_other) THEN s_other
            ELSE IF s_self.rem = QZero /\ s_other.rem = QZero
            THEN Quantities(Call(c, "subunit_quantity", <<s_self, max_sig>>),
                            Call(c, "subunit_quantity", <<s_other, max_sig>>))
            ELSE IF DecimalOf(other) = QZero THEN Err("ZeroDivisionError")
            ELSE LET quot == QDiv(DecimalOf(self), DecimalOf(other))
                     fdiv == QFloor(quot)
                     mod == IF QInt(fdiv) = quot THEN QZero
                            ELSE IF self.sign = other.sign
                            THEN QRem(DecimalOf(self), DecimalOf(other))
                            ELSE DecimalOf(other)
                 IN  DivPair(Call(c, "from_int", <<self.base, fdiv, max_sig>>),
                             Call(c, "from_decimal", <<self.base, mod, max_sig>>))
    IN
    IF Mixed(self.base)
    THEN IF fo = QZero THEN Err("ZeroDivisionError")
         ELSE LET fq == QInt(QFloor(QDiv(fs, fo)))
              IN  DivPair(Call(c, "from_float", <<self.base, fq, Significant(self)>>),
                          Call(c, "from_float", <<self.base, QSub(fs, QMul(fq, fo)), Significant(self)>>))
    ELSE IF fs = QZero
    THEN DivPair(zero(c, self.base, max_sig), zero(c, self.base, max_sig))
    ELSE Resized(Call(c, "resize", <<self, max_sig>>), Call(c, "resize", <<other, max_sig>>))

\* self // other and self % other
__floordiv__(c, self, other) ==
    LET Quotient(d) == IF IsErr(d) THEN d ELSE d.q
    IN  Quotient(Call(c, "__divmod__", <<self, other>>))

__mod__(c, self, other) ==
    LET Modulo(d) == IF IsErr(d) THEN d ELSE d.m
    IN  Modulo(Call(c, "__divmod__", <<self, other>>))

\* the digit loop of _truediv left out: no fractional digit is computed
NoDivLoop(c, q_res, right, r, denominator, i, max_significant) ==
    [err |-> "ok", q_res |-> q_res, right |-> right, r |-> r]

\* the digit loop of _truediv: [err, q_res, right, r]
RECURSIVE DivLoop(_, _, _, _, _, _, _)
DivLoop(c, q_res, right, r, denominator, i, max_significant) ==
    LET radix == LL(BaseRight(q_res.base), i)
        Bumped(bumped) ==
            IF IsErr(bumped) THEN bumped
            ELSE [err |-> "ok", q_res |-> bumped, right |-> right,
                  r |-> zero(c, q_res.base, 0)]
        Digit(d) ==
            IF IsErr(d) THEN d
            ELSE IF FloatOf(d.q) = QInt(radix) THEN Bumped(AddFloat(c, q_res, QOne))
            ELSE DivLoop(c, q_res, [right EXCEPT ![i + 1] = ToInt(d.q)], d.m,
                         denominator, i + 1, max_significant)
        Numerator(numerator) ==
            IF IsErr(numerator) THEN numerator
            ELSE Digit(Call(c, "__divmod__", <<numerator, denominator>>))
    IN  IF i >= max_significant
        THEN [err |-> "ok", q_res |-> q_res, right |-> right, r |-> r]
        ELSE Numerator(MulFloat(c, r, QInt(radix)))

_truediv(c, self, other) ==
    LET fs == FloatOf(self)
        fo == FloatOf(other)
        max_significant == Max(Significant(self), Significant(other))
        Quotient(loop, denominator) ==
            IF IsErr(loop) THEN loop
            ELSE New(c, self.base, loop.q_res.left, loop.right,
                     QDiv(DecimalOf(loop.r), DecimalOf(denominator)),
                     self.sign * other.sign)
        Fraction(q_res, q_res0, d, denominator) ==
            IF IsErr(q_res) THEN q_res
            ELSE Quotient(DivLoop(c, q_res, q_res0.right, d.m, denominator, 0,
                                  max_significant), denominator)
        Integer(q_res0, d, denominator) ==
            IF IsErr(d) THEN d
            ELSE Fraction(OpAdd(c, q_res0, d.q), q_res0, d, denominator)
        Absolute(q_res0, numerator, denominator) ==
            IF IsErr(q_res0) THEN q_res0
            ELSE IF IsErr(numerator) THEN numerator
            ELSE IF IsErr(denominator) THEN denominator
            ELSE Integer(q_res0, Call(c, "__divmod__", <<numerator, denominator>>), denominator)
    IN
    IF Mixed(self.base)
    THEN IF fo = QZero THEN Err("ZeroDivisionError")
         ELSE Call(c, "from_float", <<self.base, QDiv(fs, fo), Significant(self)>>)
    ELSE IF fs = QZero THEN zero(c, self.base, max_significant)
    ELSE IF fo = QOne THEN self
    ELSE IF fo = QNeg(QOne) THEN Call(c, "__neg__", <<self>>)
    ELSE IF fo = QZero THEN Err("ZeroDivisionError")
    ELSE Absolute(zero(c, self.base, max_significant), __abs__(c, self),
                  __abs__(c, other))

\* the custom algorithm of the test suite: def add(a, b): return Sexagesimal(0)
Custom(c, f, a, b) == New(c, "Sexagesimal", <<0>>, <<>>, QZero, 1)

\* PreciseNumber.__add__, __sub__, __mul__, __truediv__: the override, or the default
Body(c, sym, a, b) ==
    CASE sym = "add" -> IF c.add # "None" THEN Custom(c, c.add, a, b) ELSE Call(c, "_add", <<a, b>>)
      [] sym = "sub" -> IF c.sub # "None" THEN Custom(c, c.sub, a, b) ELSE Call(c, "_sub", <<a, b>>)
      [] sym = "mul" -> IF c.mul # "None" THEN Custom(c, c.mul, a, b) ELSE Call(c, "_mul", <<a, b>>)
      [] sym = "div" -> IF c.div # "None" THEN Custom(c, c.div, a, b) ELSE Call(c, "_truediv", <<a, b>>)

\* args[0]._get_significant(args[1]): [err, n]
GetSignificant(c, a, b) ==
    CASE c.pf = "MAX" -> [err |-> "ok", n |-> Max(Significant(a), Significant(b))]
      [] c.pf = "SCI" -> [err |-> "ok", n |-> Min(Significant(a), Significant(b))]
      [] c.pf = "FULL" -> Err("NotImplementedError")
      [] c.pf = "SELF" -> IF c.pmode.k = "FIX" THEN [err |-> "ok", n |-> c.pmode.n]
                          ELSE Err("TypeError")

\* ctx.tmode(value)
TMode(c, v) ==
    CASE c.tmode = "NONE" -> v
      [] c.tmode = "ROUND" -> Call(c, "__round__", <<v, None>>)
      [] c.tmode = "TRUNC" -> Call(c, "truncate", <<v, None>>)
      [] c.tmode = "CEIL" -> Call(c, "ceil", <<v, None>>)
      [] c.tmode = "FLOOR" -> Call(c, "floor", <<v, None>>)

\* what a wrapped call yields: the value of the body, that value resized, the value
\* returned, and the arguments handed to ctx.record when the call reaches it
Stages(raw, pre, res) == [raw |-> raw, pre |-> pre, res |-> res, args |-> <<>>]

\* _with_context_precision.wrapper: the raw value of the body, the value resized
\* to the context's precision, and the value the context's truncation returns
Wrapper(c, sym, a, b) ==
    LET entry == PostInit(c.pmode, c.tmode)
        Truncated(raw, pre) ==
            Stages(raw, pre, IF IsErr(pre) THEN pre ELSE TMode(c, pre))
        Precise(raw, p) ==
            Truncated(raw, IF IsErr(p) THEN p ELSE Call(c, "resize", <<raw, p.n>>))
        Logged(s) ==
            IF IsErr(s.res) THEN s ELSE [s EXCEPT !.args = <<a, b, sym, s.res>>]
        Returned(raw) ==
            IF IsErr(raw) \/ IsPlain(b) THEN Stages(raw, raw, raw)
            ELSE Logged(Precise(raw, GetSignificant(c, a, b)))
    IN  IF ~RegisteredAll(c)
        THEN Stages(Err("ValueError"), Err("ValueError"), Err("ValueError"))
        ELSE IF entry # "ok" THEN Stages(Err(entry), Err(entry), Err(entry))
        ELSE Returned(Body([c EXCEPT !.recording = FALSE], sym, a, b))

\* a + b, a - b, a * b, a / b with a BasedReal on the left: __add__, __mul__ and
\* __truediv__ of BasedReal convert an operand of another type and start again,
\* __sub__ is the one PreciseNumber defines
Operate(c, sym, a, b) ==
    LET Converted(o) == IF IsErr(o) THEN Stages(o, o, o) ELSE Call(c, "Wrapper", <<sym, a, o>>)
        other == IF IsPlain(b) THEN b.rem ELSE FloatOf(b)
    IN  Converted(IF a.base = b.base \/ sym = "sub" THEN b
                  ELSE Call(c, "from_float", <<a.base, other, Significant(a)>>))

-----------------------------------------------------------------------------
(* BasedReal: text.  A str is the sequence of its characters.              *)

\* RadixBase.integer_separators
Separators(b) ==
    CASE b = "Sexagesimal" -> <<<<",">>>>
      [] b = "Historical" -> <<<<>>, <<"r", " ">>, <<"s", " ">>>>
      [] b = "HistoricalDecimal" -> <<<<>>>>
      [] b = "IntegerAndSexagesimal" -> <<<<>>>>
      [] b = "Temporal" -> <<<<>>>>

\* ndigit_for_radix: int(ceil(log10(radix)))
ndigit_for_radix(radix) == CHOOSE d \in 0..9 : 10^d >= radix /\ (d = 0 \/ 10^(d - 1) < radix)

\* str(n) of an int
RECURSIVE Str(_)
Str(n) ==
    IF n < 0 THEN <<"-">> \o Str(-n)
    ELSE IF n < 10 THEN <<(<<"0", "1", "2", "3", "4", "5", "6", "7", "8", "9">>)[n + 1]>>
    ELSE Str(n \div 10) \o Str(n % 10)

\* "0" * (digit - len(num)) + num
Padded(num, digit) ==
    IF digit > Len(num) THEN SubSeq(<<"0", "0", "0", "0", "0", "0", "0", "0", "0">>,
                                    1, digit - Len(num)) \o num
    ELSE num

\* the integer part of __repr__, from the digit of index i
RECURSIVE ReprLeft(_, _)
ReprLeft(v, i) ==
    IF i >= Len(v.left) THEN <<>>
    ELSE (IF i > 0 THEN LL(Separators(v.base), i - Len(v.left)) ELSE <<>>)
         \o Padded(Str(v.left[i + 1]), ndigit_for_radix(LL(BaseLeft(v.base), i - Len(v.left))))
         \o ReprLeft(v, i + 1)

\* the fractional part of __repr__, from the digit of index i
RECURSIVE ReprRight(_, _)
ReprRight(v, i) ==
    IF i >= Len(v.right) THEN <<>>
    ELSE Padded(Str(v.right[i + 1]), ndigit_for_radix(LL(BaseRight(v.base), i)))
         \o (IF i < Len(v.right) - 1 THEN <<",">> ELSE <<>>)
         \o ReprRight(v, i + 1)

\* f"{remainder:3.1f}" of a Decimal of [0, 1]: one decimal, halves to the even one
Tenths(rem) ==
    LET t == QMulInt(rem, 10)
        f == QFloor(t)
        n == IF QSub(t, QInt(f)) = QHalf THEN (IF f % 2 = 0 THEN f ELSE f + 1)
             ELSE QFloor(QAdd(t, QHalf))
    IN  Str(n \div 10) \o <<".">> \o Str(n % 10)

__repr__(v) ==
    (IF v.sign < 0 THEN <<"-">> ELSE <<>>)
    \o ReprLeft(v, 0) \o <<" ", ";", " ">> \o ReprRight(v, 0)
    \o (IF v.rem # QZero THEN <<" ", "|", "r">> \o Tenths(v.rem) ELSE <<>>)

\* str.strip() for the blank of the texts
RECURSIVE Strip(_)
Strip(t) ==
    IF t # <<>> /\ t[1] = " " THEN Strip(Tail(t))
    ELSE IF t # <<>> /\ t[Len(t)] = " " THEN Strip(SubSeq(t, 1, Len(t) - 1))
    ELSE t

\* str.lower() for the letters of the separators
RECURSIVE Lower(_)
Lower(t) ==
    IF t = <<>> THEN <<>>
    ELSE <<(CASE t[1] = "R" -> "r" [] t[1] = "S" -> "s" [] OTHER -> t[1])>> \o Lower(Tail(t))

\* the index of the first ch in t, 0 when there is none
RECURSIVE Find(_, _, _)
Find(t, ch, i) ==
    IF i > Len(t) THEN 0 ELSE IF t[i] = ch THEN i ELSE Find(t, ch, i + 1)

\* t.split(sep, maxsplit) for a separator of one character; maxsplit -1 is no limit
RECURSIVE Split(_, _, _)
Split(t, ch, maxsplit) ==
    LET i == Find(t, ch, 1)
    IN  IF i = 0 \/ maxsplit = 0 THEN <<t>>
        ELSE <<SubSeq(t, 1, i - 1)>> \o Split(SubSeq(t, i + 1, Len(t)), ch, maxsplit - 1)

\* the value of a text of decimal digits
RECURSIVE DigitsValue10(_)
DigitsValue10(t) ==
    IF t = <<>> THEN 0
    ELSE 10 * DigitsValue10(SubSeq(t, 1, Len(t) - 1))
         + (CHOOSE d \in 0..9 : Str(d) = <<t[Len(t)]>>)

\* int(t): [err, val]
ParseInt(t) ==
    LET body == Strip(t)
        digits == IF body # <<>> /\ body[1] \in {"-", "+"} THEN Tail(body) ELSE body
    IN  IF digits = <<>> \/ \E i \in 1..Len(digits) : \A d \in 0..9 : Str(d) # <<digits[i]>>
        THEN [err |-> "ValueError", val |-> 0]
        ELSE [err |-> "ok",
              val |-> IF body[1] = "-" THEN -DigitsValue10(digits) ELSE DigitsValue10(digits)]

\* [int(i) for i in parts]: [err, nums]
RECURSIVE ParseAll(_)
ParseAll(parts) ==
    IF parts = <<>> THEN [err |-> "ok", nums |-> <<>>]
    ELSE LET n == ParseInt(parts[1])
             rest == ParseAll(Tail(parts))
         IN  IF n.err # "ok" THEN [err |-> n.err, nums |-> <<>>]
             ELSE IF rest.err # "ok" THEN rest
             ELSE [err |-> "ok", nums |-> <<n.val>> \o rest.nums]

\* the loop of _from_string over the reversed integer part (i = n once it is left)
\* and the insertion that follows it: [err, nums]
RECURSIVE LeftLoop(_, _, _, _, _)
LeftLoop(b, rleft, left_numbers, i, n) ==
    LET separator == Lower(Strip(LL(Separators(b), -i - 1)))
        split == Split(rleft, separator[1], 1)
        Last == LET v == ParseInt(Reverse(rleft))
                IN  IF v.err # "ok" THEN [err |-> v.err, nums |-> <<>>]
                    ELSE [err |-> "ok", nums |-> <<v.val>> \o left_numbers]
        Inserted(value, rem) ==
            LET v == ParseInt(Reverse(value))
            IN  IF v.err # "ok" THEN [err |-> v.err, nums |-> <<>>]
                ELSE LeftLoop(b, Strip(rem), <<v.val>> \o left_numbers,
                              IF Len(Strip(rem)) = 1 THEN n ELSE i + 1, n)
    IN  IF i >= n THEN Last
        ELSE IF separator # <<>>
        THEN IF Len(split) = 1 THEN Last ELSE Inserted(split[1], split[2])
        ELSE IF rleft = <<>> THEN [err |-> "IndexError", nums |-> <<>>]
        ELSE Inserted(<<rleft[1]>>, Tail(rleft))

\* cls(string): _from_string
_from_string(c, b, string) ==
    LET stripped == Lower(Strip(string))
        sign == IF stripped[1] = "-" THEN -1 ELSE 1
        left_right == Split(IF sign = -1 THEN Tail(stripped) ELSE stripped, ";", -1)
        left == Strip(left_right[1])
        right == IF Len(left_right) < 2 THEN <<>> ELSE Strip(left_right[2])
        right_numbers == IF Len(right) > 0 THEN ParseAll(Split(right, ",", -1))
                         ELSE [err |-> "ok", nums |-> <<>>]
        left_numbers == IF Len(left) > 0 THEN LeftLoop(b, Reverse(left), <<>>, 0, Len(left))
                        ELSE [err |-> "ok", nums |-> <<>>]
    IN  IF stripped = <<>> THEN Err("EmptyStringException")
        ELSE IF Len(left_right) > 2 THEN Err("TooManySeparators")
        ELSE IF right_numbers.err # "ok" THEN Err(right_numbers.err)
        ELSE IF left_numbers.err # "ok" THEN Err(left_numbers.err)
        ELSE New(c, b, left_numbers.nums, right_numbers.nums, QZero, sign)

\* the operator result of `a sym b`, as Operate gives it
Op(c, sym, a, b) ==
    IF IsErr(a) THEN a ELSE IF IsErr(b) THEN b ELSE Call(c, "Operate", <<sym, a, b>>).res

\* int(math.sqrt(n)) of a natural number n
SqrtInt(n) == CHOOSE k \in 0..n : k * k <= n /\ n < (k + 1) * (k + 1)

\* math.sqrt(f) of a float whose root is a ratio of integers
FloatSqrt(f) == Q(SqrtInt(f[1]), SqrtInt(f[2]))

\* the loop of sqrt: res += self / res; res /= 2
RECURSIVE SqrtLoop(_, _, _, _)
SqrtLoop(c, self, res, n) ==
    IF n <= 0 \/ IsErr(res) THEN res
    ELSE SqrtLoop(c, self,
                  Op(c, "div", Op(c, "add", res, Op(c, "div", self, res)), Plain(QInt(2))),
                  n - 1)

\* sqrt, by the Babylonian method
sqrt(c, self, iteration) ==
    LET p == IF iteration = None THEN GetSignificant(c, self, self)
             ELSE [err |-> "ok", n |-> iteration[1]]
    IN  IF self.sign < 0 THEN Err("ValueError")
        ELSE IF DecimalOf(self) = QZero THEN self
        ELSE IF IsErr(p) THEN p
        ELSE IF QLe(QOne, FloatOf(self))
        THEN SqrtLoop(c, self,
                      Call(c, "from_int", <<self.base, SqrtInt(QFloor(FloatOf(self))), 0>>),
                      p.n)
        ELSE Call(c, "from_float", <<self.base, FloatSqrt(FloatOf(self)), Significant(self)>>)

\* the loops of __pow__: res *= self, or res /= self, n times
RECURSIVE PowLoop(_, _, _, _, _)
PowLoop(c, sym, self, res, n) ==
    IF n <= 0 \/ IsErr(res) THEN res
    ELSE PowLoop(c, sym, self, Op(c, sym, res, self), n - 1)

\* self ** exponent, the exponent a rational with a fractional part of 0 or 1/2
__pow__(c, self, exponent) ==
    LET int_exp == QTrunc(exponent)
        f_exp == QSub(exponent, QInt(int_exp))
        Scaled_(res) ==
            Op(c, "mul", res, Plain(IF f_exp = QZero THEN QOne ELSE FloatSqrt(FloatOf(self))))
        Powered(res) ==
            IF IsErr(res) THEN res
            ELSE IF exponent = QZero THEN res
            ELSE IF DecimalOf(self) = QZero THEN self
            ELSE IF QLt(DecimalOf(self), QZero) /\ QInt(int_exp) # exponent
            THEN Err("ValueError")
            ELSE Scaled_(PowLoop(c, IF int_exp > 0 THEN "mul" ELSE "div", self, res,
                                 Abs(int_exp)))
    IN  Powered(one(c, self.base, Significant(self)))

Call(c, name, a) ==
    CASE name = "__new__" -> __new__(c, a[1], a[2], a[3], a[4], a[5], a[6])
      [] name = "from_int" -> from_int(c, a[1], a[2], a[3])
      [] name = "from_decimal" -> from_decimal(c, a[1], a[2], a[3])
      [] name = "from_float" -> from_float(c, a[1], a[2], a[3])
      [] name = "resize" -> resize(c, a[1], a[2])
      [] name = "truncate" -> truncate(c, a[1], a[2])
      [] name = "__round__" -> __round__(c, a[1], a[2])
      [] name = "floor" -> floor(c, a[1], a[2])
      [] name = "ceil" -> ceil(c, a[1], a[2])
      [] name = "shift" -> shift(c, a[1], a[2])
      [] name = "subunit_quantity" -> subunit_quantity(c, a[1], a[2])
      [] name = "__lshift__" -> __lshift__(c, a[1], a[2])
      [] name = "__rshift__" -> __rshift__(c, a[1], a[2])
      [] name = "__trunc__" -> __trunc__(c, a[1])
      [] name = "__floor__" -> __floor__(c, a[1])
      [] name = "__ceil__" -> __ceil__(c, a[1])
      [] name = "__neg__" -> __neg__(c, a[1])
      [] name = "__abs__" -> __abs__(c, a[1])
      [] name = "_add" -> _add(c, a[1], a[2])
      [] name = "_sub" -> _sub(c, a[1], a[2])
      [] name = "_mul" -> _mul(c, a[1], a[2])
      [] name = "_truediv" -> _truediv(c, a[1], a[2])
      [] name = "__divmod__" -> __divmod__(c, a[1], a[2])
      [] name = "__floordiv__" -> __floordiv__(c, a[1], a[2])
      [] name = "__mod__" -> __mod__(c, a[1], a[2])
      [] name = "sqrt" -> sqrt(c, a[1], a[2])
      [] name = "_from_string" -> _from_string(c, a[1], a[2])
      [] name = "__pow__" -> __pow__(c, a[1], a[2])
      [] name = "Wrapper" -> Wrapper(c, a[1], a[2], a[3])
      [] name = "Operate" -> Operate(c, a[1], a[2], a[3])

-----------------------------------------------------------------------------
(* RadixBase: construction and the registry of the number types            *)

LowerCase ==
    <<"a", "b", "c", "d", "e", "f", "g", "h", "i", "j", "k", "l", "m",
      "n", "o", "p", "q", "r", "s", "t", "u", "v", "w", "x", "y", "z">>

UpperCase ==
    <<"A", "B", "C", "D", "E", "F", "G", "H", "I", "J", "K", "L", "M",
      "N", "O", "P", "Q", "R", "S", "T", "U", "V", "W", "X", "Y", "Z">>

\* the letter of table to that stands where ch stands in table from
Recase(ch, from, to) ==
    IF \E i \in 1..26 : from[i] = ch THEN to[CHOOSE i \in 1..26 : from[i] = ch] ELSE ch

\* str.capitalize: the first character in upper case, the others in lower case
RECURSIVE LowerAll(_)
LowerAll(t) ==
    IF t = <<>> THEN <<>>
    ELSE <<Recase(t[1], UpperCase, LowerCase)>> \o LowerAll(Tail(t))

Capitalize(t) ==
    IF t = <<>> THEN <<>>
    ELSE <<Recase(t[1], LowerCase, UpperCase)>> \o LowerAll(Tail(t))

\* "".join(map(str.capitalize, name.split("_")))
RECURSIVE JoinCapitalized(_)
JoinCapitalized(parts) ==
    IF parts = <<>> THEN <<>>
    ELSE Capitalize(parts[1]) \o JoinCapitalized(Tail(parts))

TypeName(name) == JoinCapitalized(Split(name, "_", -1))

\* a radix as it is given: an int, or a value of another type (a float, held
\* in tenths)
IntRadix(n) == [int |-> TRUE, val |-> n]

FloatRadix(tenths) == [int |-> FALSE, val |-> tenths]

RECURSIVE Values(_)
Values(l) == IF l = <<>> THEN <<>> ELSE <<l[1].val>> \o Values(Tail(l))

RECURSIVE IntRadices(_)
IntRadices(l) == IF l = <<>> THEN <<>> ELSE <<IntRadix(l[1])>> \o IntRadices(Tail(l))

\* the default separators: "," if x != 10 else ""
RECURSIVE DefaultSeparators(_)
DefaultSeparators(left) ==
    IF left = <<>> THEN <<>>
    ELSE <<IF left[1] # 10 THEN <<",">> ELSE <<>>>> \o DefaultSeparators(Tail(left))

\* RadixBase.__init__ on the registry reg: [err, reg], reg being the registry
\* it leaves
RadixBase(reg, left, right, name, integer_separators) ==
    LET type_name == TypeName(name)
        base == [left |-> Values(left), right |-> Values(right), name |-> name,
                 integer_separators |->
                     IF integer_separators # None THEN integer_separators[1]
                     ELSE DefaultSeparators(Values(left)),
                 mixed |-> \E i \in 1..(Len(left) + Len(right)) :
                               (Values(left) \o Values(right))[i] # left[1].val]
    IN  IF left = <<>> \/ right = <<>> THEN [err |-> "AssertionError", reg |-> reg]
        ELSE IF \E i \in 1..Len(left) : ~left[i].int
        THEN [err |-> "AssertionError", reg |-> reg]
        ELSE IF \E i \in 1..Len(right) : ~right[i].int
        THEN [err |-> "AssertionError", reg |-> reg]
        ELSE IF integer_separators # None /\ Len(integer_separators[1]) # Len(left)
        THEN [err |-> "ValueError", reg |-> reg]
        ELSE IF type_name \in DOMAIN reg THEN [err |-> "ValueError", reg |-> reg]
        ELSE [err |-> "ok", reg |-> reg @@ (type_name :> base)]

\* the bases that the module registers when it is imported
StandardBases ==
    <<<<<<60>>, <<60>>, <<"s", "e", "x", "a", "g", "e", "s", "i", "m", "a", "l">>, None>>,
      <<<<10, 12, 30>>, <<60>>, <<"h", "i", "s", "t", "o", "r", "i", "c", "a", "l">>, Some(<<<<>>, <<"r", " ">>, <<"s", " ">>>>)>>,
      <<<<10>>, <<100>>, 
         <<"h", "i", "s", "t", "o", "r", "i", "c", "a", "l", "_", "d", "e", "c", "i", "m", "a", "l">>, None>>,
      <<<<10>>, <<60>>, 
         <<"i", "n", "t", "e", "g", "e", "r", "_", "a", "n", "d", "_", "s", "e", "x", "a", "g", "e", "s", "i", "m", "a", "l">>, None>>,
      <<<<10>>, <<24, 60>>, <<"t", "e", "m", "p", "o", "r", "a", "l">>, None>>>>

RECURSIVE Registered(_)
Registered(n) ==
    IF n = 0 THEN <<>>
    ELSE LET b == StandardBases[n]
         IN  RadixBase(Registered(n - 1), IntRadices(b[1]), IntRadices(b[2]), b[3], b[4]).reg

InitRadixRegistry == Registered(Len(StandardBases))

-----------------------------------------------------------------------------
(* The precision context                                                   *)

TModes == {"NONE", "ROUND", "TRUNC", "CEIL", "FLOOR"}

\* the fields of a PrecisionContext that set_precision saves and restores
Config(pmode, tmode, add, sub, mul, div, recording) ==
    [pmode |-> pmode, tmode |-> tmode, add |-> add, sub |-> sub, mul |-> mul,
     div |-> div, recording |-> recording]

\* __CONTEXT = PrecisionContext()
DefaultConfig == Config(MAXMode, "NONE", "None", "None", "None", "None", FALSE)

\* a context as the arithmetic reads it: the configuration, the installed
\* _precisionfunc, the scope counter and the registry
Context(cfg, pf, stack, reg) ==
    [pmode |-> cfg.pmode, tmode |-> cfg.tmode, add |-> cfg.add, sub |-> cfg.sub,
     mul |-> cfg.mul, div |-> cfg.div, recording |-> cfg.recording,
     pf |-> pf, stack |-> stack, reg |-> reg]

DefaultContext == Context(DefaultConfig, "MAX", 0, {"None"})

\* the default context with a precision mode and a truncation mode set
ContextOf(pmode, tmode) ==
    [DefaultContext EXCEPT !.pmode = pmode, !.pf = PrecisionFuncOf(pmode), !.tmode = tmode]

\* the callables the program may register, and the identifiers it may give them
Fns == {"None", "f"}

Names == {"DEFAULT", "F"}

\* _AI_REGISTRY = {None: "DEFAULT"}, as a set of <<function, identifier>>
InitRegistry == {<<"None", "DEFAULT">>}

RegFns(reg) == {p[1] : p \in reg}

RegNames(reg) == {p[2] : p \in reg}

\* _AI_REGISTRY[fn]
RegName(reg, fn) == (CHOOSE p \in reg : p[1] = fn)[2]

\* the arguments of set_precision / mutate; <<>> is an argument left at its default
Args(pmode, tmode, recording, add, sub, mul, div) ==
    [pmode |-> pmode, tmode |-> tmode, recording |-> recording,
     add |-> add, sub |-> sub, mul |-> mul, div |-> div]

NoArgs == Args(<<>>, <<>>, <<>>, <<>>, <<>>, <<>>, <<>>)

\* asdict(ctx) without _records and stack
CfgOf(c) == Config(c.pmode, c.tmode, c.add, c.sub, c.mul, c.div, c.recording)

\* mutate(**current)
ArgsOfConfig(cfg) ==
    Args(<<cfg.pmode>>, <<cfg.tmode>>, <<cfg.recording>>,
         <<cfg.add>>, <<cfg.sub>>, <<cfg.mul>>, <<cfg.div>>)

Given(o) == {o[i] : i \in DOMAIN o}

OrElse(o, old) == IF o = <<>> THEN old ELSE o[1]

\* the argument as `tmode or self.tmode` sees it: one that is falsy counts as None
Truthy(o) == IF o # <<>> /\ o[1] = "" THEN <<>> ELSE o

\* PrecisionContext.mutate on the context c: [err, ctx]
mutate(c, reg, a) ==
    IF \E f \in Given(a.add) \cup Given(a.sub) \cup Given(a.mul) \cup Given(a.div) :
           f \notin RegFns(reg)
    THEN [err |-> "ValueError", ctx |-> c]
    ELSE LET c1 == [c EXCEPT !.pmode = OrElse(a.pmode, @),
                             !.tmode = OrElse(Truthy(a.tmode), @),
                             !.recording = OrElse(a.recording, @),
                             !.add = OrElse(a.add, @),
                             !.sub = OrElse(a.sub, @),
                             !.mul = OrElse(a.mul, @),
                             !.div = OrElse(a.div, @)]
             post == PostInit(c1.pmode, c1.tmode)
         IN  IF post # "ok" THEN [err |-> post, ctx |-> c1]
             ELSE [err |-> "ok", ctx |-> [c1 EXCEPT !.pf = PrecisionFuncOf(c1.pmode)]]

\* the finally clause of set_precision: ctx.mutate(**current); ctx.stack -= 1
Restore(c, reg, current) ==
    LET m == mutate(c, reg, ArgsOfConfig(current))
    IN  IF m.err # "ok" THEN m
        ELSE [err |-> "ok", ctx |-> [m.ctx EXCEPT !.stack = @ - 1]]

\* PrecisionContext.freeze
freeze(c, reg) ==
    [tmode |-> c.tmode, pmode |-> c.pmode,
     add |-> RegName(reg, c.add), sub |-> RegName(reg, c.sub),
     mul |-> RegName(reg, c.mul), div |-> RegName(reg, c.div)]

-----------------------------------------------------------------------------
(* The program as a state machine: scopes, registry, records, operators    *)

MaxDepth == 2

MaxStack == 2

MaxRecords == 1

\* the live context object: its configuration, _precisionfunc and stack
Live(cfg, pf, stack) ==
    [pmode |-> cfg.pmode, tmode |-> cfg.tmode, add |-> cfg.add, sub |-> cfg.sub,
     mul |-> cfg.mul, div |-> cfg.div, recording |-> cfg.recording,
     pf |-> pf, stack |-> stack]

\* get_context() together with the registry its checks read
Env(c, reg) == Context(CfgOf(c), c.pf, c.stack, RegFns(reg))

\* the argument lists with which the program enters a scope: valid ones, an
\* override that may not be registered, and values __post_init__ must reject
ScopeArgs ==
    {NoArgs,
     [NoArgs EXCEPT !.pmode = <<Fix(0)>>, !.tmode = <<"ROUND">>],
     [NoArgs EXCEPT !.add = <<"f">>],
     [NoArgs EXCEPT !.pmode = <<FULLMode>>],
     [NoArgs EXCEPT !.pmode = <<Fix(-1)>>],
     [NoArgs EXCEPT !.pmode = <<[k |-> "float", n |-> 0]>>],
     [NoArgs EXCEPT !.tmode = <<"str">>],
     [NoArgs EXCEPT !.tmode = <<"">>]}

\* the context the program hands to set_context: a new one that records
NewContexts ==
    {[DefaultConfig EXCEPT !.recording = TRUE]}

\* the operands of the operator calls made inside scopes
OperandX == Num("Sexagesimal", <<1>>, <<30, 15>>, QHalf, 1)

OperandY == Num("Sexagesimal", <<0>>, <<20>>, QZero, -1)

\* the right operands: a number of the base of the left one, or a plain float
RightOperands == {OperandY, Plain(QHalf)}

NoExit == [how |-> "none", restored |-> TRUE]

\* what the last call did: the value it returned, or the exception it raised
Outcome(op, res) == [op |-> op, res |-> res]

NoResult == Outcome("none", Err("none"))

Init ==
    /\ ctx = Live(DefaultConfig, "MAX", 0)
    /\ registry = InitRegistry
    /\ radix_registry = InitRadixRegistry
    /\ cache = {}
    /\ frames = <<>>
    /\ records = <<>>
    /\ lastExit = NoExit
    /\ pc = "scopes"
    /\ x = OperandX
    /\ y = OperandY
    /\ cx = DefaultContext
    /\ out = NoResult

\* with set_precision(...): up to the yield, or through the finally clause when
\* the entering mutate raises
EnterScope(a) ==
    /\ pc = "scopes"
    /\ Len(frames) < MaxDepth
    /\ ctx.stack < MaxStack
    /\ LET current == CfgOf(ctx)
           m == mutate([ctx EXCEPT !.stack = @ + 1], registry, a)
           r == Restore(m.ctx, registry, current)
       IN  IF m.err = "ok"
           THEN /\ ctx' = m.ctx
                /\ frames' = Append(frames, current)
                /\ lastExit' = NoExit
                /\ out' = Outcome("set_precision", Err("none"))
           ELSE /\ ctx' = r.ctx
                /\ UNCHANGED frames
                /\ lastExit' = [how |-> "entry", restored |-> CfgOf(r.ctx) = current]
                /\ out' = Outcome("set_precision", Err(IF r.err = "ok" THEN m.err ELSE r.err))
    /\ UNCHANGED <<registry, records, pc, x, y, cx, radix_registry, cache>>

\* the finally clause of the innermost scope, reached when its body ends or raises
ExitScope(how) ==
    /\ pc = "scopes"
    /\ frames # <<>>
    /\ LET current == frames[Len(frames)]
           r == Restore(ctx, registry, current)
       IN  /\ ctx' = r.ctx
           /\ lastExit' = [how |-> how, restored |-> CfgOf(r.ctx) = current]
           /\ out' = Outcome("exit", Err(IF r.err = "ok" THEN "none" ELSE r.err))
    /\ frames' = SubSeq(frames, 1, Len(frames) - 1)
    /\ UNCHANGED <<registry, records, pc, x, y, cx, radix_registry, cache>>

\* a faulty identify_func that registers without its two checks: C17 must fail on it
IdentifyFuncUnchecked(name, fn) ==
    /\ pc = "scopes"
    /\ registry' = registry \cup {<<fn, name>>}
    /\ out' = Outcome("identify_func", Err("none"))
    /\ lastExit' = NoExit
    /\ UNCHANGED <<ctx, frames, records, pc, x, y, cx, radix_registry, cache>>

\* identify_func(name)(fn)
IdentifyFunc(name, fn) ==
    /\ pc = "scopes"
    /\ IF name \in RegNames(registry) \/ fn \in RegFns(registry)
       THEN /\ UNCHANGED registry
            /\ out' = Outcome("identify_func", Err("ValueError"))
       ELSE /\ registry' = registry \cup {<<fn, name>>}
            /\ out' = Outcome("identify_func", Err("none"))
    /\ lastExit' = NoExit
    /\ UNCHANGED <<ctx, frames, records, pc, x, y, cx, radix_registry, cache>>

\* remove_func(fn), of a function the program registered itself
RemoveFunc(fn) ==
    /\ pc = "scopes"
    /\ registry' = {p \in registry : p[1] # fn}
    /\ lastExit' = NoExit
    /\ out' = Outcome("remove_func", Err("none"))
    /\ UNCHANGED <<ctx, frames, records, pc, x, y, cx, radix_registry, cache>>

\* set_context(PrecisionContext(...))
SetContext(cfg) ==
    /\ pc = "scopes"
    /\ IF ctx.stack > 0
       THEN /\ UNCHANGED <<ctx, records>>
            /\ out' = Outcome("set_context", Err("ValueError"))
       ELSE /\ ctx' = Live(cfg, PrecisionFuncOf(cfg.pmode), 0)
            /\ records' = <<>>
            /\ out' = Outcome("set_context", Err("none"))
    /\ lastExit' = NoExit
    /\ UNCHANGED <<registry, frames, pc, x, y, cx, radix_registry, cache>>

\* set_recording(flag)
SetRecording(flag) ==
    /\ pc = "scopes"
    /\ IF ctx.stack > 0
       THEN /\ UNCHANGED ctx
            /\ out' = Outcome("set_recording", Err("ValueError"))
       ELSE /\ ctx' = [ctx EXCEPT !.recording = flag]
            /\ out' = Outcome("set_recording", Err("none"))
    /\ lastExit' = NoExit
    /\ UNCHANGED <<registry, frames, records, pc, x, y, cx, radix_registry, cache>>

\* clear_records()
ClearRecords ==
    /\ pc = "scopes"
    /\ records' = <<>>
    /\ lastExit' = NoExit
    /\ out' = Outcome("clear_records", Err("none"))
    /\ UNCHANGED <<ctx, registry, frames, pc, x, y, cx, radix_registry, cache>>

\* x <sym> b through _with_context_precision: the scope around the body, the
\* resize and truncation, and ctx.record
OperatorCall(sym, b) ==
    /\ pc = "scopes"
    /\ ctx.stack < MaxStack
    /\ Len(records) < MaxRecords
    /\ LET current == CfgOf(ctx)
           m == mutate([ctx EXCEPT !.stack = @ + 1], registry,
                       [NoArgs EXCEPT !.recording = <<FALSE>>])
           r == Restore(m.ctx, registry, current)
           Recorded(s) ==
               IF r.ctx.recording /\ s.args # <<>>
               THEN Append(records, [args |-> s.args, frozen |-> freeze(r.ctx, registry)])
               ELSE records
           Returned(s) ==
               /\ out' = Outcome(sym, s.res)
               /\ records' = Recorded(s)
       IN  /\ ctx' = r.ctx
           /\ lastExit' = [how |-> "operator", restored |-> CfgOf(r.ctx) = current]
           /\ Returned(Call(Env(ctx, registry), "Operate", <<sym, x, b>>))
    /\ UNCHANGED <<registry, frames, pc, x, y, cx, radix_registry, cache>>

Next ==
    \/ \E a \in ScopeArgs : EnterScope(a)
    \/ \E how \in {"normal", "exception"} : ExitScope(how)
    \/ \E name \in Names, fn \in Fns : IdentifyFunc(name, fn)
    \/ \E fn \in Fns \ {"None"} : RemoveFunc(fn)
    \/ \E cfg \in NewContexts : SetContext(cfg)
    \/ \E flag \in BOOLEAN : SetRecording(flag)
    \/ ClearRecords
    \/ \E sym \in {"add", "sub", "mul", "div"}, b \in RightOperands : OperatorCall(sym, b)

Spec == Init /\ [][Next]_vars

-----------------------------------------------------------------------------
(* Numbers: the constructor and the methods of one number                  *)

MaxLeft == 2

MaxRight == 2

\* the tuples of n digits for the positions pos, pos + 1, ... of base b, each
\* digit the least or the greatest its position allows
RECURSIVE Tuples(_, _, _)
Tuples(b, pos, n) ==
    IF n = 0 THEN {<<>>}
    ELSE {<<d>> \o t : d \in {0, RadixAt(b, pos) - 1}, t \in Tuples(b, pos + 1, n - 1)}

Lefts(b) == UNION {Tuples(b, 1 - n, n) : n \in 1..MaxLeft}

Rights(b) == UNION {Tuples(b, 1, n) : n \in 0..MaxRight}

\* the digit tuples (left \o right) of Lefts x Rights with one digit replaced by
\* -1 or by the radix of its position
BadDigits(b) ==
    UNION {UNION {{<<[l \o r EXCEPT ![i] = d], Len(l)>> : d \in {-1, RadixAt(b, i - Len(l))}} :
                      i \in 1..Len(l \o r)} :
               l \in Lefts(b), r \in Rights(b)}

\* the arguments of a constructor call: cls(left, right, remainder=rem, sign=sign)
Raw(b, l, r, kind, rem, s) ==
    [base |-> b, left |-> l, right |-> r, kind |-> kind, rem |-> rem, sign |-> s]

\* remainders as <<kind, value>>: Decimals inside and outside [0, 1), ints, a float
RemainderArgs ==
    {<<<<"Decimal", "int">>, QZero>>, <<<<"Decimal", "int">>, QHalf>>,
     <<<<"Decimal", "int">>, QOne>>, <<<<"Decimal", "int">>, Q(3, 2)>>,
     <<<<"Decimal", "int">>, Q(-1, 2)>>, <<<<"int", "int">>, QZero>>,
     <<<<"int", "int">>, QOne>>, <<<<"float", "int">>, QHalf>>,
     <<<<"Decimal", "float">>, QZero>>}

ConstructorArgs(b) ==
    {Raw(b, l, r, k[1], k[2], s) :
        l \in Lefts(b), r \in Rights(b), k \in RemainderArgs, s \in {1, -1}}
    \cup {Raw(b, SubSeq(d[1], 1, d[2]), SubSeq(d[1], d[2] + 1, Len(d[1])),
              <<"Decimal", "int">>, rem, 1) :
            d \in BadDigits(b), rem \in {QZero, QOne}}
    \cup {Raw(b, l, <<>>, <<"Decimal", "int">>, QZero, 0) : l \in Lefts(b)}

\* the ints given to from_int: zero, units, and both sides of the weights of the
\* second and third integer positions
IntArgs == {-3600, -61, -1, 0, 59, 3600}

\* the longest shift
MaxShift == 2

ShiftArgs == (-MaxShift)..MaxShift

\* math.floor(y), math.ceil(y) and math.trunc(y), which return an int
MathCalls == {"__floor__", "__ceil__", "__trunc__"}

\* the method calls made on a number, as <<name, arguments after self or cls>>
MethodCalls ==
    {<<"resize", <<k>>>> : k \in 0..(MaxRight + 1)}
    \cup {<<m, <<n>>>> : m \in {"truncate", "__round__", "floor", "ceil"},
                         n \in {None} \cup {Some(k) : k \in 0..MaxRight}}
    \cup {<<"truncate", <<Some(-1)>>>>}
    \cup {<<m, <<>>>> : m \in MathCalls}
    \cup {<<"shift", <<i>>>> : i \in ShiftArgs}
    \cup {<<m, <<i>>>> : m \in {"__lshift__", "__rshift__"}, i \in 1..MaxShift}
    \cup {<<"__neg__", <<>>>>, <<"__abs__", <<>>>>}
    \cup {<<"from_int", <<n, k>>>> : n \in IntArgs, k \in 0..1}
    \cup {<<"from_decimal", <<q, 1>>>> : q \in {Q(-3, 2), Q(1, 3)}}

NotBuilt == Err("none")

InitValue ==
    /\ ctx = Live(DefaultConfig, "MAX", 0)
    /\ registry = InitRegistry
    /\ radix_registry = InitRadixRegistry
    /\ cache = {}
    /\ frames = <<>>
    /\ records = <<>>
    /\ lastExit = NoExit
    /\ pc = "args"
    /\ x \in UNION {ConstructorArgs(b) : b \in BaseNames}
    /\ y = NotBuilt
    /\ cx = DefaultContext
    /\ out = NoResult

\* y = cls(x.left, x.right, remainder=x.rem, sign=x.sign)
Construct ==
    /\ pc = "args"
    /\ pc' = "built"
    /\ y' = Call(cx, "__new__", <<x.base, x.left, x.right, x.kind, x.rem, x.sign>>)
    /\ out' = Outcome("__new__", y')
    /\ UNCHANGED <<ctx, registry, frames, records, lastExit, x, cx, radix_registry, cache>>

\* y.name(*a), or type(y).name(*a) for the class methods; the driver keeps
\* apart the calls that return an int
Method(name, a) ==
    /\ pc = "built"
    /\ ~IsErr(y)
    /\ pc' = (IF name \in MathCalls THEN "converted" ELSE "called")
    /\ out' = Outcome(name, Call(cx, name, (IF name \in {"from_int", "from_decimal"}
                                            THEN <<y.base>> ELSE <<y>>) \o a))
    /\ UNCHANGED <<ctx, registry, frames, records, lastExit, x, y, cx, radix_registry, cache>>

\* type(y)(repr(y)): the text of y parsed by the constructor
Reparse ==
    /\ pc = "built"
    /\ ~IsErr(y)
    /\ pc' = "called"
    /\ out' = Outcome("_from_string", Call(cx, "_from_string", <<y.base, __repr__(y)>>))
    /\ UNCHANGED <<ctx, registry, frames, records, lastExit, x, y, cx, radix_registry, cache>>

NextValue ==
    \/ Construct
    \/ Reparse
    \/ \E m \in MethodCalls : Method(m[1], m[2])

SpecValue == InitValue /\ [][NextValue]_vars

-----------------------------------------------------------------------------
(* Arithmetic: the binary operations on two numbers of one base            *)

\* the operands of base b: an integer digit of 0, 1 or the greatest one, no
\* fractional digit, one (half the radix) or, after a 0, two (0 and 1), a remainder
\* of 0 or 1/2, either sign
Operands(b) ==
    {Num(b, d[1], d[2], rem, s) :
        d \in {<<<<0>>, <<>>>>, <<<<0>>, <<RadixAt(b, 1) \div 2>>>>, <<<<0>>, <<0, 1>>>>,
               <<<<1>>, <<>>>>, <<<<RadixAt(b, 0) - 1>>, <<>>>>,
               <<<<RadixAt(b, 0) - 1>>, <<RadixAt(b, 1) \div 2>>>>},
        rem \in {QZero, QHalf},
        s \in {1, -1}}

\* the operands on the right under a context other than the default one
FewOperands(b) ==
    {v \in Operands(b) : v.left = <<0>> => (v.right # <<>> /\ v.sign = 1 /\ v.rem # QZero)}

\* the contexts of the precision and truncation modes of the tests
Contexts ==
    {ContextOf(p, t) : p \in {MAXMode, SCIMode, Fix(0), Fix(1)}, t \in TModes}

InitArith ==
    /\ ctx = Live(DefaultConfig, "MAX", 0)
    /\ registry = InitRegistry
    /\ radix_registry = InitRadixRegistry
    /\ cache = {}
    /\ frames = <<>>
    /\ records = <<>>
    /\ lastExit = NoExit
    /\ pc = "operands"
    /\ out = NoResult
    /\ \E b \in BaseNames :
          \/ x \in Operands(b) /\ y \in Operands(b) /\ cx = DefaultContext
          \/ /\ b = "Sexagesimal"
             /\ x \in Operands(b) /\ y \in FewOperands(b) /\ cx \in Contexts

\* x + y, x - y, x * y, x / y under the context cx
Apply(sym) ==
    /\ pc = "operands"
    /\ pc' = "applied"
    /\ out' = Outcome(sym, Call(cx, "Operate", <<sym, x, y>>).res)
    /\ UNCHANGED <<ctx, registry, frames, records, lastExit, x, y, cx, radix_registry, cache>>

\* divmod(x, y), x // y, x % y under the context cx
Divide(name) ==
    /\ pc = "operands"
    /\ pc' = "applied"
    /\ out' = Outcome(name, Call(cx, name, <<x, y>>))
    /\ UNCHANGED <<ctx, registry, frames, records, lastExit, x, y, cx, radix_registry, cache>>

NextArith ==
    \/ \E sym \in {"add", "sub", "mul", "div"} : Apply(sym)
    \/ \E name \in {"__divmod__", "__floordiv__", "__mod__"} : Divide(name)

SpecArith == InitArith /\ [][NextArith]_vars

\* the operands of the domain tests of base b: 0, 1/4, 1, 2 1/4 and 4, of either
\* sign, each the square of a ratio of integers
Squares(b) ==
    {Num(b, d[1], d[2], QZero, s) :
        d \in {<<<<0>>, <<>>>>, <<<<0>>, <<RadixAt(b, 1) \div 4>>>>, <<<<1>>, <<>>>>,
               <<<<2>>, <<RadixAt(b, 1) \div 4>>>>, <<<<4>>, <<>>>>},
        s \in {1, -1}}

\* the exponents of the power tests
Exponents == {QZero, QInt(2), QInt(-1), QHalf}

InitDomain ==
    /\ ctx = Live(DefaultConfig, "MAX", 0)
    /\ registry = InitRegistry
    /\ radix_registry = InitRadixRegistry
    /\ cache = {}
    /\ frames = <<>>
    /\ records = <<>>
    /\ lastExit = NoExit
    /\ pc = "operands"
    /\ out = NoResult
    /\ cx = DefaultContext
    /\ \E b \in BaseNames :
          /\ x \in Squares(b)
          /\ y \in {v \in Squares(b) : v.left # <<1>> /\ v.right = <<>>}
                   \cup {Num(b, <<0>>, <<0>>, QZero, 1)}

\* x.sqrt()
Sqrt ==
    /\ pc = "operands"
    /\ pc' = "applied"
    /\ out' = Outcome("sqrt", Call(cx, "sqrt", <<x, None>>))
    /\ UNCHANGED <<ctx, registry, frames, records, lastExit, x, y, cx, radix_registry, cache>>

\* x ** e
Power(e) ==
    /\ pc = "operands"
    /\ pc' = "applied"
    /\ out' = Outcome("__pow__", Call(cx, "__pow__", <<x, e>>))
    /\ UNCHANGED <<ctx, registry, frames, records, lastExit, x, y, cx, radix_registry, cache>>

NextDomain ==
    \/ NextArith
    \/ Sqrt
    \/ \E e \in Exponents : Power(e)

\* the operations that have a domain: division, square root and power
SpecDomain == InitDomain /\ [][NextDomain]_vars

\* the methods of one number and the operations on two numbers together
SpecNumber == (InitValue \/ InitArith) /\ [][NextValue \/ NextArith]_vars

-----------------------------------------------------------------------------
(* Operators and rounding methods under a context that holds one override  *)

\* the contexts with the custom algorithm of the tests installed for add alone
\* and for mul alone
OverrideContexts ==
    {[DefaultContext EXCEPT !.add = "f", !.reg = {"None", "f"}],
     [DefaultContext EXCEPT !.mul = "f", !.reg = {"None", "f"}]}

\* round(y, n), y.floor(n), y.ceil(n)
RoundingCalls ==
    {<<m, <<n>>>> : m \in {"__round__", "floor", "ceil"},
                    n \in {None} \cup {Some(k) : k \in 0..MaxRight}}

\* the driver either applies an operator to x and y or calls a method of y
InitOverride ==
    /\ ctx = Live(DefaultConfig, "MAX", 0)
    /\ registry = InitRegistry
    /\ radix_registry = InitRadixRegistry
    /\ cache = {}
    /\ frames = <<>>
    /\ records = <<>>
    /\ lastExit = NoExit
    /\ pc \in {"operands", "built"}
    /\ out = NoResult
    /\ cx \in OverrideContexts
    /\ x \in Operands("Sexagesimal")
    /\ y \in FewOperands("Sexagesimal")

NextOverride ==
    \/ \E sym \in {"add", "sub", "mul", "div"} : Apply(sym)
    \/ \E m \in RoundingCalls : Method(m[1], m[2])

SpecOverride == InitOverride /\ [][NextOverride]_vars

-----------------------------------------------------------------------------
(* subunit_quantity called on two numbers, one call after the other        *)

\* the positions asked for
MaxPos == 2

Positions == (-1)..MaxPos

\* the most entries the cache holds
MaxCached == 2

\* one with and without fractional digits, a number of two integer digits, a
\* negative number at two precisions, in the base of radix 60 and in a base of radices 10 and 100
UnitOperands ==
    {Num("Sexagesimal", <<1>>, <<>>, QZero, 1),
     Num("Sexagesimal", <<1>>, <<0>>, QZero, 1),
     Num("Sexagesimal", <<1>>, <<30>>, QZero, -1),
     Num("Sexagesimal", <<1>>, <<30, 0>>, QZero, -1),
     Num("Sexagesimal", <<1, 0>>, <<2, 30>>, QHalf, 1),
     Num("HistoricalDecimal", <<1>>, <<>>, QZero, 1),
     Num("HistoricalDecimal", <<1, 2>>, <<50>>, QZero, -1)}

InitUnits ==
    /\ ctx = Live(DefaultConfig, "MAX", 0)
    /\ registry = InitRegistry
    /\ radix_registry = InitRadixRegistry
    /\ cache = {}
    /\ frames = <<>>
    /\ records = <<>>
    /\ lastExit = NoExit
    /\ pc = "operands"
    /\ out = NoResult
    /\ cx = DefaultContext
    /\ x \in UnitOperands
    /\ y \in UnitOperands

\* v.subunit_quantity(i) behind its lru_cache: the value of the entry that the
\* key finds, otherwise the value computed, which is stored unless the call
\* raised
SubunitQuantity(v, i) ==
    /\ pc \in {"operands", "counted"}
    /\ Cardinality(cache) < MaxCached
    /\ pc' = "counted"
    /\ out' = [op |-> "subunit_quantity", self |-> v, i |-> i,
               res |-> IF CacheHits(cache, v, i) # {}
                       THEN IntVal((CHOOSE e \in CacheHits(cache, v, i) : TRUE).val)
                       ELSE Call(cx, "subunit_quantity", <<v, i>>)]
    /\ cache' = IF CacheHits(cache, v, i) # {} \/ IsErr(out'.res) THEN cache
                ELSE cache \cup {[self |-> v, i |-> i, val |-> out'.res.val]}
    /\ UNCHANGED <<ctx, registry, frames, records, lastExit, x, y, cx, radix_registry>>

\* x == y, x.equals(y), hash(x) and hash(y)
Compare ==
    /\ pc = "operands"
    /\ pc' = "compared"
    /\ out' = [op |-> "compare", eq |-> __eq__(x, y), equals |-> equals(x, y),
               hash_x |-> __hash__(x), hash_y |-> __hash__(y)]
    /\ UNCHANGED <<ctx, registry, frames, records, lastExit, x, y, cx, radix_registry, cache>>

NextUnits ==
    \/ \E v \in {x, y}, i \in Positions : SubunitQuantity(v, i)
    \/ Compare

SpecUnits == InitUnits /\ [][NextUnits]_vars

-----------------------------------------------------------------------------
(* The sums and differences of the documented examples                     *)

\* the operands of the examples of addition, and their opposites
ExampleA == Num("Sexagesimal", <<1, 21>>, <<47, 25>>, QZero, 1)

ExampleB == Num("Sexagesimal", <<45>>, <<32, 14, 22>>, QZero, 1)

ExampleOperands ==
    {ExampleA, ExampleB, [ExampleA EXCEPT !.sign = -1], [ExampleB EXCEPT !.sign = -1],
     Num("Sexagesimal", <<1>>, <<50>>, QZero, 1)}

InitSum ==
    /\ ctx = Live(DefaultConfig, "MAX", 0)
    /\ registry = InitRegistry
    /\ radix_registry = InitRadixRegistry
    /\ cache = {}
    /\ frames = <<>>
    /\ records = <<>>
    /\ lastExit = NoExit
    /\ pc = "operands"
    /\ out = NoResult
    /\ cx \in {DefaultContext, ContextOf(SCIMode, "NONE")}
    /\ x \in ExampleOperands
    /\ y \in ExampleOperands

NextSum == \E sym \in {"add", "sub"} : Apply(sym)

SpecSum == InitSum /\ [][NextSum]_vars

-----------------------------------------------------------------------------
(* The registry of the bases as a state machine: bases are constructed     *)
(* after the import of the module                                          *)

\* the most types the registry holds
MaxBases == 7

\* the arguments of the constructor calls
LeftArgs == {<<>>, IntRadices(<<0>>), IntRadices(<<10>>), IntRadices(<<11, 5>>)}

RightArgs == {<<>>, IntRadices(<<2>>), IntRadices(<<-60>>), <<FloatRadix(11)>>}

NameArgs == {<<"t", "e", "s", "t">>, <<"a", "_", "b">>, <<"a", "b">>, 
             <<"s", "e", "x", "a", "g", "e", "s", "i", "m", "a", "l">>}

SeparatorArgs == {None, Some(<<<<"a">>>>)}

InitBases ==
    /\ ctx = Live(DefaultConfig, "MAX", 0)
    /\ registry = InitRegistry
    /\ radix_registry = InitRadixRegistry
    /\ cache = {}
    /\ frames = <<>>
    /\ records = <<>>
    /\ lastExit = NoExit
    /\ pc = "bases"
    /\ out = NoResult
    /\ cx = DefaultContext
    /\ x = Err("none")
    /\ y = Err("none")

\* RadixBase(left, right, name, integer_separators)
Register(left, right, name, integer_separators) ==
    /\ pc = "bases"
    /\ Cardinality(DOMAIN radix_registry) < MaxBases
    /\ LET r == RadixBase(radix_registry, left, right, name, integer_separators)
       IN  /\ radix_registry' = r.reg
           /\ out' = [op |-> "RadixBase", res |-> r.err,
                      args |-> <<left, right, name, integer_separators>>,
                      before |-> radix_registry]
    /\ UNCHANGED <<ctx, registry, frames, records, lastExit, pc, x, y, cx, cache>>

NextBases ==
    \E left \in LeftArgs, right \in RightArgs, name \in NameArgs,
       integer_separators \in SeparatorArgs :
        Register(left, right, name, integer_separators)

SpecBases == InitBases /\ [][NextBases]_vars

-----------------------------------------------------------------------------
(* Claims about set_precision scopes                                       *)

\* C1: whenever a set_precision scope exits - after its body ended, after an
\* exception left its body, after its own entry raised, or around an operator
\* call - every configuration field of the live context equals the value it
\* had immediately before that scope was entered, whatever operator,
\* identify_func and remove_func calls happened inside the scope.
C1_ExitRestoresConfig ==
    lastExit.how # "none" => lastExit.restored

\* C13: in every reachable state the nesting counter of the live context equals
\* the number of set_precision scopes that are active, and so is 0 when none is.
C13_StackCountsScopes ==
    ctx.stack = Len(frames)

\* C14: while a set_precision scope is active set_context and set_recording raise
\* ValueError and leave the live context as it was; while none is active
\* set_context installs the given context with nesting counter 0 and
\* set_recording sets the recording flag to the given value.
C14_ContextGuard ==
    [][/\ \A cfg \in NewContexts :
              SetContext(cfg) =>
                  IF frames # <<>>
                  THEN out'.res.err = "ValueError" /\ ctx' = ctx /\ records' = records
                  ELSE out'.res.err = "none" /\ CfgOf(ctx') = cfg /\ ctx'.stack = 0
       /\ \A flag \in BOOLEAN :
              SetRecording(flag) =>
                  IF frames # <<>>
                  THEN out'.res.err = "ValueError" /\ ctx' = ctx
                  ELSE out'.res.err = "none" /\ ctx' = [ctx EXCEPT !.recording = flag]]_vars

C16_OneRecordPerCall ==
    [][/\ \A sym \in {"add", "sub", "mul", "div"}, b \in RightOperands :
              OperatorCall(sym, b) /\ ~IsErr(out'.res) =>
                  IF ctx.recording
                  THEN /\ Len(records') = Len(records) + 1
                       /\ SubSeq(records', 1, Len(records)) = records
                       /\ LET entry == records'[Len(records')]
                          IN  /\ Len(entry.args) = 4
                              /\ entry.args[1] = x
                              /\ entry.args[3] = sym
                              /\ entry.args[4] = out'.res
                              /\ entry.frozen = freeze(ctx, registry)
                  ELSE records' = records
       /\ \A how \in {"normal", "exception"} : ExitScope(how) => records' = records]_vars

-----------------------------------------------------------------------------
(* Claims about the registry of algorithms and the validation of scopes    *)

C18_RejectedScopes ==
    [][RegisteredAll(Env(ctx, registry)) =>
           /\ \A a \in ScopeArgs :
                  LET badType == \/ \E p \in Given(a.pmode) :
                                        p.k \notin {"FIX", "MAX", "SCI", "FULL"}
                                 \/ \E t \in Given(a.tmode) : t \notin TModes
                      negative == \E p \in Given(a.pmode) : p.k = "FIX" /\ p.n < 0
                  IN  EnterScope(a) /\ (badType \/ negative) =>
                          /\ out'.res.err = IF badType THEN "TypeError" ELSE "ValueError"
                          /\ CfgOf(ctx') = CfgOf(ctx)
                          /\ ctx'.stack = ctx.stack
                          /\ frames' = frames
           /\ \A sym \in {"add", "sub", "mul", "div"}, b \in RightOperands :
                  OperatorCall(sym, b) /\ ctx.pmode = FULLMode =>
                      /\ out'.res.err = "NotImplementedError"
                      /\ CfgOf(ctx') = CfgOf(ctx)
                      /\ ctx'.stack = ctx.stack]_vars


-----------------------------------------------------------------------------
(* Claims about the constructor                                            *)

\* the call cls(x.left, x.right, remainder=x.rem, sign=x.sign) has returned or raised
Constructed == pc = "built" /\ out.op = "__new__"

\* the digits given are ints within the radix of their position
GoodDigits == x.kind[2] = "int" /\ DigitsInRange(x.base, x.left, x.right)

\* the value of the digits given, without their remainder
DigitsValue == DecimalOf(Num(x.base, x.left, x.right, QZero, x.sign))

\* C10: the constructor keeps a Decimal remainder of [0, 1), folds a remainder of
\* exactly 1 into the lowest fractional digit (the value becomes one unit of the last
\* position above the digits given, the remainder stays in [0, 1)), and raises
\* ValueError for every other remainder and for every remainder that is not a
\* Decimal; no number it returns has a remainder >= 1.
C10_RemainderFolded ==
    (Constructed /\ GoodDigits /\ x.sign \in {-1, 1}) =>
        /\ ~IsErr(y) => QLe(QZero, y.rem) /\ QLt(y.rem, QOne)
        /\ IF x.kind[1] # "Decimal" THEN y = Err("ValueError")
           ELSE IF QLe(QZero, x.rem) /\ QLt(x.rem, QOne) THEN ~IsErr(y) /\ y.rem = x.rem
           ELSE IF x.rem = QOne
           THEN /\ ~IsErr(y)
                /\ DecimalOf(y) = QAdd(DigitsValue,
                                       Q(x.sign, RightFactor(x.base, Len(x.right))))
           ELSE y = Err("ValueError")

\* C11: with a sign and a remainder the constructor accepts, digit tuples holding a
\* digit that is negative or >= the radix of its position raise
\* IllegalBaseValueError, float digits raise IllegalFloatError, and no number is
\* produced in either case.
C11_BadDigitsRaise ==
    (/\ Constructed
     /\ x.sign \in {-1, 1}
     /\ x.kind[1] = "Decimal" /\ QLe(QZero, x.rem) /\ QLe(x.rem, QOne)) =>
        /\ x.kind[2] = "float" => y = Err("IllegalFloatError")
        /\ (x.kind[2] = "int" /\ ~DigitsInRange(x.base, x.left, x.right)) =>
               y = Err("IllegalBaseValueError")

-----------------------------------------------------------------------------
(* Claims about the representation of the numbers returned                 *)

\* the invariants of a number: digits within the radix of their position, remainder
\* in [0, 1), sign -1 or 1, an integer digit, no leading zero but a sole zero
WellFormed(v) ==
    /\ ~IsErr(v)
    /\ v.base \in BaseNames
    /\ DigitsInRange(v.base, v.left, v.right)
    /\ QLe(QZero, v.rem) /\ QLt(v.rem, QOne)
    /\ v.sign \in {-1, 1}
    /\ Len(v.left) >= 1
    /\ (v.left[1] = 0 => Len(v.left) = 1)
    /\ StripLeft(StripLeft(v.left)) = StripLeft(v.left)
    /\ DecimalOf([v EXCEPT !.left = StripLeft(v.left)]) = DecimalOf(v)

-----------------------------------------------------------------------------
(* Claims about resize                                                     *)

\* C6: for every base, every well-formed number v and every k >= 0, v.resize(k)
\* succeeds, has exactly k fractional digits and the value of v, resizing it back to
\* v.significant gives the value of v again, and resize(v.significant) is v.
C6_ResizeKeepsValue ==
    (pc = "called" /\ out.op = "resize" /\ WellFormed(y)) =>
        \A k \in 0..(MaxRight + 1) :
            out.res = resize(cx, y, k) =>
                /\ ~IsErr(out.res)
                /\ Significant(out.res) = k
                /\ DecimalOf(out.res) = DecimalOf(y)
                /\ LET back == resize(cx, out.res, Significant(y))
                   IN  ~IsErr(back) /\ DecimalOf(back) = DecimalOf(y)
                /\ (k = Significant(y) => out.res = y)

-----------------------------------------------------------------------------
(* Claims about the operations on two numbers                              *)

\* x op y has returned or raised, op one of +, -, * and /
Applied == pc = "applied" /\ out.op \in {"add", "sub", "mul", "div"}

\* the truncation rule t applied to v by itself, under the default context
Truncation(t, v) ==
    CASE t = "NONE" -> v
      [] t = "ROUND" -> __round__(DefaultContext, v, None)
      [] t = "TRUNC" -> truncate(DefaultContext, v, None)
      [] t = "CEIL" -> ceil(DefaultContext, v, None)
      [] t = "FLOOR" -> floor(DefaultContext, v, None)

\* the value of the default algorithm of out.op under the default context
RawResult == Body(DefaultContext, out.op, x, y)

\* the raw result resized to the precision the context asks for
Resized ==
    IF IsErr(RawResult) THEN RawResult
    ELSE resize(DefaultContext, RawResult, GetSignificant(cx, x, y).n)

\* C2: the value x op y returns under a context (precision rule P, truncation rule
\* T) is T applied to resize(raw, P(x, y)), raw being what the default algorithm
\* returns under the default context: the active rules act on the final resize and
\* truncation only.
C2_ContextOnlyFinalSteps ==
    Applied => out.res = (IF IsErr(Resized) THEN Resized ELSE Truncation(cx.tmode, Resized))

\* C3: x op y (y nonzero for /) has exactly max(x.significant, y.significant)
\* fractional digits under MAX, min(...) under SCI and N under a fixed mode N,
\* whatever the truncation mode.
C3_ResultPrecision ==
    (Applied /\ ~(out.op = "div" /\ DecimalOf(y) = QZero)) =>
        /\ ~IsErr(out.res)
        /\ Significant(out.res) =
               (CASE cx.pmode = MAXMode -> Max(Significant(x), Significant(y))
                  [] cx.pmode = SCIMode -> Min(Significant(x), Significant(y))
                  [] OTHER -> cx.pmode.n)

\* the number of units of its last fractional position that the value of v holds
Units(v) == QMulInt(DecimalOf(v), RightFactor(v.base, Significant(v)))

\* the multiple of the unit that the truncation rule t selects for u units
Selected(t, u) ==
    CASE t = "TRUNC" -> QTrunc(u)
      [] t = "FLOOR" -> QFloor(u)
      [] t = "CEIL" -> -QFloor(QNeg(u))
      [] t = "ROUND" -> IF u[1] >= 0 THEN QFloor(QAdd(u, QHalf))
                        ELSE -QFloor(QAdd(QNeg(u), QHalf))

UniformRight(b) == \A i \in 1..Len(BaseRight(b)) : BaseRight(b)[i] = BaseRight(b)[1]

\* C5: under the default context, for x and y of a base whose fractional radix is
\* uniform, x + y is a number whose value is exactly value(x) + value(y); hence
\* x + 0 has the value of x, x + (-x) is zero, and x + y equals y + x.
C5_AdditionExact ==
    (Applied /\ out.op = "add" /\ cx = DefaultContext /\ UniformRight(x.base)) =>
        /\ ~IsErr(out.res)
        /\ DecimalOf(out.res) = QAdd(DecimalOf(x), DecimalOf(y))
        /\ DecimalOf(y) = QZero => DecimalOf(out.res) = DecimalOf(x)
        /\ y = __neg__(cx, x) => DecimalOf(out.res) = QZero
        /\ out.res = Operate(cx, "add", y, x).res

\* a sum of two remainders that carries a unit into the digits, with borrowing
\* between operands of different signs excluded
C5_Witness ==
    /\ Applied /\ out.op = "add" /\ cx = DefaultContext /\ x.base = "Historical"
    /\ x.rem = QHalf /\ y.rem = QHalf /\ x.sign = y.sign
    /\ Significant(x) # Significant(y)
    /\ ~IsErr(out.res)
    /\ DecimalOf(out.res) = QAdd(DecimalOf(x), DecimalOf(y))

-----------------------------------------------------------------------------
(* Claims about division                                                   *)

\* C7: under the default context, for x and nonzero y of one base, divmod(x, y)
\* returns (q, m) with q * y + m == x, q the integer floor(x / y), and m zero or of
\* the sign of y with |m| < |y|; x // y is q and x % y is m.
C7_DivmodIdentity ==
    (/\ pc = "applied" /\ out.op \in {"__divmod__", "__floordiv__", "__mod__"}
     /\ cx = DefaultContext /\ DecimalOf(y) # QZero) =>
        LET d == __divmod__(cx, x, y)
            vq == DecimalOf(d.q)
            vm == DecimalOf(d.m)
        IN  /\ ~IsErr(d)
            /\ QAdd(QMul(vq, DecimalOf(y)), vm) = DecimalOf(x)
            /\ vq = QInt(QFloor(QDiv(DecimalOf(x), DecimalOf(y))))
            /\ vm = QZero \/ (vm[1] > 0) = (DecimalOf(y)[1] > 0)
            /\ QLt(QAbs(vm), QAbs(DecimalOf(y)))
            /\ out.res = (CASE out.op = "__divmod__" -> d
                            [] out.op = "__floordiv__" -> d.q
                            [] out.op = "__mod__" -> d.m)

-----------------------------------------------------------------------------
(* Claims about multiplication                                             *)

-----------------------------------------------------------------------------
(* Claims about the domain of the operations                               *)

\* C19: x / y, x // y, x % y and divmod(x, y) raise for every x, zero included,
\* when y is zero; the square root of a number of negative sign raises; a negative
\* number raised to a non-integer exponent raises.
C19_DomainErrorsRaised ==
    pc = "applied" =>
        /\ (out.op \in {"div", "__divmod__", "__floordiv__", "__mod__"}
            /\ DecimalOf(y) = QZero) => IsErr(out.res)
        /\ (out.op = "sqrt" /\ x.sign < 0) => IsErr(out.res)
        /\ (out.op = "__pow__" /\ QLt(DecimalOf(x), QZero)) =>
               \A e \in Exponents :
                   (QInt(QTrunc(e)) # e /\ out.res = __pow__(cx, x, e)) => IsErr(out.res)

-----------------------------------------------------------------------------
(* Claims about the text of a number                                       *)

\* C20: for every base and every well-formed number y of zero remainder, parsing
\* repr(y) succeeds and gives a number of the sign, the integer digits and the
\* fractional digits of y, an integer part of one digit whose position has an empty
\* separator included.
C20_ReprParses ==
    (pc = "called" /\ out.op = "_from_string" /\ WellFormed(y) /\ y.rem = QZero) =>
        /\ ~IsErr(out.res)
        /\ out.res.sign = y.sign
        /\ out.res.left = y.left
        /\ out.res.right = y.right

-----------------------------------------------------------------------------
(* Claims about the conversions from and to int                            *)

\* C21: for every base, every int n and every s >= 0, from_int(n, s) is a
\* well-formed number of s fractional digits, all zero, of zero remainder, of sign
\* -1 exactly when n < 0, and int() of it is n.
C21_FromIntRoundTrip ==
    (pc = "called" /\ out.op = "from_int") =>
        \A n \in IntArgs, s \in 0..1 :
            out.res = from_int(cx, y.base, n, s) =>
                /\ WellFormed(out.res)
                /\ out.res.right = Zeros(s)
                /\ out.res.rem = QZero
                /\ (out.res.sign = -1) = (n < 0)
                /\ ToInt(out.res) = n

\* a negative int of three integer digits in the base of radices 10, 12 and 30
C21_Witness ==
    /\ pc = "called" /\ out.op = "from_int" /\ y.base = "Historical"
    /\ out.res = from_int(cx, "Historical", -3600, 1)
    /\ Len(out.res.left) = 4 /\ out.res.sign = -1 /\ ToInt(out.res) = -3600

-----------------------------------------------------------------------------
(* Claims about truncate, round, floor and ceil                            *)

\* the arguments given to truncate
TruncateArgs == {None, Some(-1)} \cup {Some(k) : k \in 0..MaxRight}

\* what truncate(n) is to return: the sign kept, no remainder, all the integer
\* digits and the first n fractional digits for n >= 0, no fractional digit when
\* n is omitted, the integer digits without their |n| last ones for n < 0
Truncated(v, n) ==
    LET k == IF n = None THEN 0 ELSE n[1]
        kept == Len(v.left) + k
    IN  IF k > Significant(v) THEN v
        ELSE Num(v.base,
                 IF k >= 0 THEN v.left
                 ELSE IF kept >= 1 THEN Take(v.left, kept) ELSE <<0>>,
                 IF k >= 0 THEN Take(v.right, k) ELSE <<>>,
                 QZero, v.sign)

\* C22: truncate(n) discards the remainder without rounding and keeps the sign;
\* for 0 <= n <= significant it keeps the integer digits and the first n
\* fractional digits; with n omitted it drops every fractional digit; for n < 0
\* it drops the |n| low-order integer digits; for n beyond the precision it
\* returns the number unchanged.
C22_Truncate ==
    (pc = "called" /\ out.op = "truncate") =>
        \A n \in TruncateArgs :
            out.res = truncate(cx, y, n) => out.res = Truncated(y, n)

\* the arguments given to round, floor and ceil
RoundArgs == {None} \cup {Some(k) : k \in 0..MaxRight}

\* C23: for every number x and n >= 0, round(x, n) has exactly n fractional
\* digits, zero remainder, and for value the multiple of the unit of position n
\* nearest to x, halves going away from zero, so that round(-x, n) is
\* -round(x, n); with n omitted, n is the current precision; the result is the
\* same under every active precision mode and truncation mode.
C23_RoundNearest ==
    (pc = "called" /\ out.op = "__round__" /\ WellFormed(y)) =>
        \A n \in RoundArgs :
            out.res = __round__(cx, y, n) =>
                LET k == IF n = None THEN Significant(y) ELSE n[1]
                    u == QMulInt(DecimalOf(y), RightFactor(y.base, k))
                IN  /\ ~IsErr(out.res)
                    /\ Significant(out.res) = k
                    /\ out.res.rem = QZero
                    /\ Units(out.res) = QInt(Selected("ROUND", u))
                    /\ __round__(cx, __neg__(cx, y), n) = __neg__(cx, out.res)
                    /\ \A c \in Contexts : __round__(c, y, n) = out.res

\* C24: for every number x of either sign, exact integers included,
\* math.floor(x) is the greatest integer <= x, math.ceil(x) the least integer
\* >= x, and math.trunc(x) the integer part of x towards zero.
C24_FloorCeilTrunc ==
    (pc = "converted" /\ out.op \in MathCalls /\ WellFormed(y)) =>
        /\ ~IsErr(out.res)
        /\ out.res.val = (CASE out.op = "__floor__" -> QFloor(DecimalOf(y))
                            [] out.op = "__ceil__" -> -QFloor(QNeg(DecimalOf(y)))
                            [] out.op = "__trunc__" -> QTrunc(DecimalOf(y)))

-----------------------------------------------------------------------------
(* Claims about shift                                                      *)

\* R^i for the radix R of a base that is not mixed
RadixPower(b, i) ==
    IF i >= 0 THEN QInt(RightFactor(b, i)) ELSE Q(1, RightFactor(b, -i))

\* C25: in a base that is not mixed, of radix R, for every number x and every int
\* i, x >> i is x.shift(i) and x << i is x.shift(-i); the value of x.shift(i) is
\* value(x) / R^i, the remainder staying at the last position while there is one
\* to keep it; (x >> i) << i has the value of x; shift(0) returns x itself. In a
\* mixed base shift(i), i # 0, raises NotImplementedError.
C25_Shift ==
    (pc = "called" /\ out.op \in {"shift", "__lshift__", "__rshift__"}
                   /\ WellFormed(y)) =>
        \A i \in ShiftArgs :
            /\ (out.op = "__rshift__" /\ out.res = __rshift__(cx, y, i)) =>
                   out.res = shift(cx, y, i)
            /\ (out.op = "__lshift__" /\ out.res = __lshift__(cx, y, i)) =>
                   out.res = shift(cx, y, -i)
            /\ (out.op = "shift" /\ out.res = shift(cx, y, i)) =>
                   IF i = 0 THEN out.res = y
                   ELSE IF Mixed(y.base) THEN out.res = Err("NotImplementedError")
                   ELSE /\ ~IsErr(out.res)
                        /\ DecimalOf(out.res) = QDiv(DecimalOf(y), RadixPower(y.base, i))
                        /\ Significant(y) + i >= 0 =>
                               /\ Significant(out.res) = Significant(y) + i
                               /\ out.res.rem = y.rem
                        /\ LET back == __lshift__(cx, __rshift__(cx, y, i), i)
                           IN  ~IsErr(back) /\ DecimalOf(back) = DecimalOf(y)

\* a negative number with a remainder shifted two positions to the left, the
\* remainder giving the digit that its fractional part lacks
C25_Witness ==
    /\ pc = "called" /\ out.op = "__lshift__"
    /\ WellFormed(y) /\ y.base = "Sexagesimal" /\ y.sign = -1 /\ y.rem = QHalf
    /\ Significant(y) = 1 /\ y.left # <<0>>
    /\ out.res = __lshift__(cx, y, 2)
    /\ out.res = Num("Sexagesimal", y.left \o y.right \o <<30>>, <<>>, QZero, -1)

-----------------------------------------------------------------------------
(* Claims about the registry of the bases                                  *)

\* a radix list that holds a radix which is not a positive int
BadRadix(l) == \E i \in 1..Len(l) : ~l[i].int \/ l[i].val <= 0

\* C26: the construction of a base fails if a radix list is empty, if a radix is
\* not a positive int, or if the capitalised name is registered already, and a
\* failed construction leaves the registry as it was; a successful one adds
\* exactly one entry, which binds the name to a type whose base holds the
\* radices given; no entry is ever replaced or removed.
C26_Registration ==
    out.op = "RadixBase" =>
        LET left == out.args[1]
            right == out.args[2]
            type_name == TypeName(out.args[3])
        IN  /\ (\/ left = <<>> \/ right = <<>>
                \/ BadRadix(left) \/ BadRadix(right)
                \/ type_name \in DOMAIN out.before) => out.res # "ok"
            /\ out.res # "ok" => radix_registry = out.before
            /\ out.res = "ok" =>
                   /\ DOMAIN radix_registry = DOMAIN out.before \cup {type_name}
                   /\ type_name \notin DOMAIN out.before
                   /\ radix_registry[type_name].left = Values(left)
                   /\ radix_registry[type_name].right = Values(right)
            /\ \A n \in DOMAIN out.before : radix_registry[n] = out.before[n]

-----------------------------------------------------------------------------
(* Claims about the documented examples                                    *)

\* C27: under the default context, Sexagesimal((1, 21), (47, 25)) +
\* Sexagesimal((45,), (32, 14, 22)) has the integer digits (2, 7), the fractional
\* digits (19, 39) and a nonzero remainder of about 0.4 (22/60).
C27_ExampleSum ==
    (pc = "applied" /\ out.op = "add" /\ cx = DefaultContext
                    /\ x = ExampleA /\ y = ExampleB) =>
        /\ ~IsErr(out.res)
        /\ out.res.left = <<2, 7>>
        /\ out.res.right = <<19, 39>>
        /\ out.res.rem = Q(22, 60)
        /\ out.res.sign = 1

-----------------------------------------------------------------------------
(* Claims about subunit_quantity, equality and hash                        *)

\* the weight of the integer position -n
RECURSIVE LeftFactor(_, _)
LeftFactor(b, n) == IF n <= 0 THEN 1 ELSE LeftFactor(b, n - 1) * LL(BaseLeft(b), -n)

\* the number of units of position i that the value of v holds
UnitsAt(v, i) ==
    IF i > 0 THEN QMulInt(DecimalOf(v), RightFactor(v.base, i))
    ELSE QDiv(DecimalOf(v), QInt(LeftFactor(v.base, -i)))

\* C28: for every number x and every position i, x.subunit_quantity(i) is sign(x)
\* times the whole number of units of position i that |x| holds, and it depends
\* on the base and the digits of x and on i only: it is what the call returns
\* with no earlier call, whatever calls were made before, on x or on a number of
\* another base or precision that compares equal to x.
C28_SubunitQuantity ==
    out.op = "subunit_quantity" =>
        /\ ~IsErr(out.res)
        /\ out.res.val = QTrunc(UnitsAt(out.self, out.i))
        /\ out.res = subunit_quantity(cx, out.self, out.i)

\* C30: for two numbers a and b, of one base or of two, of one precision or of
\* two, a == b implies hash(a) == hash(b), and a.equals(b) implies a == b.
C30_EqualHashes ==
    out.op = "compare" =>
        /\ out.eq => out.hash_x = out.hash_y
        /\ out.equals => out.eq

-----------------------------------------------------------------------------
(* Claims about one override and the other operations                      *)

\* the context cx without its overrides
Bare == [cx EXCEPT !.add = "None", !.mul = "None"]

\* C29: an override installed for one operator changes the results of that
\* operator only: with an override for add alone, *, /, round, floor and ceil
\* return what they return in the same context without the override, and with an
\* override for mul alone + and / do.
C29_OverrideIsolated ==
    /\ (pc = "applied" /\ cx.add # "None" /\ cx.mul = "None"
                       /\ out.op \in {"mul", "div"}) =>
           out.res = Operate(Bare, out.op, x, y).res
    /\ (pc = "applied" /\ cx.mul # "None" /\ cx.add = "None"
                       /\ out.op \in {"add", "div"}) =>
           out.res = Operate(Bare, out.op, x, y).res
    /\ (pc = "called" /\ cx.add # "None" /\ cx.mul = "None"
                      /\ out.op \in {"__round__", "floor", "ceil"}) =>
           \A n \in RoundArgs :
               out.res = Call(cx, out.op, <<y, n>>) => out.res = Call(Bare, out.op, <<y, n>>)

=============================================================================
